---- MODULE Spec2Model ----
(***************************************************************************)
(* A model of the jpeg-decoder crate: the Decoder state machine            *)
(* (src/src/decoder.rs), the segment parsers (src/src/parser.rs), the      *)
(* lossless output path (src/src/decoder/lossless.rs), the entropy-coded   *)
(* data reader (src/src/huffman.rs) and the immediate worker               *)
(* (src/src/worker/immediate.rs).                                          *)
(*                                                                         *)
(* A JPEG stream is modelled as the sequence of marker segments the        *)
(* decoder meets.  Every segment is a record of the fields its parser      *)
(* reads; the entropy-coded data of a scan is, at the level of the marker  *)
(* loop, a record of what decoding it yields (an error or the marker that  *)
(* ends it), and, at the level of decode_scan, a sequence of bytes.        *)
(***************************************************************************)
EXTENDS Integers, Sequences, FiniteSets, TLC

VARIABLES
  dec,    \* the Decoder struct (decoder.rs:101-130)
  loc,    \* the locals of the running decode_internal call, and its position
  res,    \* what the last read_info() / decode() call returned
  hist,   \* history: calls that returned, scans processed, buffers allocated
  ref     \* a second Decoder over the same bytes, driven by decode() alone

vars == <<dec, loc, res, hist, ref>>

(***************************************************************************)
(* Option<T>                                                               *)
(***************************************************************************)
None == <<>>
Some(x) == <<x>>
IsSome(o) == o # <<>>
IsNone(o) == o = <<>>
Unwrap(o) == o[1]

Max(a, b) == IF a >= b THEN a ELSE b
MaxOf(S) == CHOOSE x \in S : \A y \in S : y <= x
CeilDiv(a, b) == (a + b - 1) \div b
Range(s) == {s[i] : i \in DOMAIN s}

(***************************************************************************)
(* Bounds of the model.                                                    *)
(***************************************************************************)
MaxWidth == 2
MaxHeight == 1
MaxSegments == 5
MaxCalls == 2

(***************************************************************************)
(* Program constants.                                                      *)
(***************************************************************************)
MAX_COMPONENTS == 4

(***************************************************************************)
(* Markers (marker.rs).  SOF, RST and APP carry their number.              *)
(***************************************************************************)
Mk(kind, n) == [kind |-> kind, n |-> n]
SOI == Mk("SOI", 0)
EOI == Mk("EOI", 0)
SOS == Mk("SOS", 0)

(***************************************************************************)
(* Result<T>: Ok carries a value, an error its kind and what it reports.   *)
(***************************************************************************)
Ok(v) == [kind |-> "Ok", what |-> "", val |-> Some(v)]
Err(kind, what) == [kind |-> kind, what |-> what, val |-> None]
Format(what) == Err("Format", what)
Unsupported(what) == Err("Unsupported", what)
Io == Err("Io", "UnexpectedEof")
\* An unwrap of None, an index out of bounds or a failed assert.
Panic(what) == Err("Panic", what)
IsOk(r) == r.kind = "Ok"
Val(r) == r.val[1]

Dimensions(w, h) == [width |-> w, height |-> h]

(***************************************************************************)
(* parser.rs: read_length.  lf is the segment's two-byte length field.     *)
(***************************************************************************)
read_length(lf) ==
  IF lf < 2 THEN Format("invalid length") ELSE Ok(lf - 2)

(***************************************************************************)
(* parser.rs: parse_sof.  t is the SOFn segment: the marker's number n,    *)
(* the length field lf, precision, height, width and the component         *)
(* specifications [id, h, v, tq]; t.eof says the reader ends inside the    *)
(* segment.                                                                *)
(***************************************************************************)
sof_is_differential(n) == n \in {5, 6, 7, 13, 14, 15}
sof_coding_process(n) ==
  IF n \in {0, 1, 5, 9, 13} THEN "DctSequential"
  ELSE IF n \in {2, 6, 10, 14} THEN "DctProgressive"
  ELSE "Lossless"
sof_entropy_coding(n) ==
  IF n \in {0, 1, 2, 3, 5, 6, 7} THEN "Huffman" ELSE "Arithmetic"

\* FrameInfo::output_size and Component::dct_scale of a frame on which
\* Decoder::scale was not called: the image is decoded at full size.
output_size_unscaled(image_size) == image_size
dct_scale_unscaled == 8

sof_component_error(t, i) ==
  LET c == t.comps[i]
      process == sof_coding_process(t.n)
  IN IF \E j \in 1..(i - 1) : t.comps[j].id = c.id
       THEN "duplicate frame component identifier"
     ELSE IF c.h = 0 \/ c.h > 4 THEN "invalid horizontal sampling factor"
     ELSE IF c.v = 0 \/ c.v > 4 THEN "invalid vertical sampling factor"
     ELSE IF c.tq > 3 \/ (process = "Lossless" /\ c.tq # 0)
       THEN "invalid quantization table index"
     ELSE ""

parse_sof(t) ==
  LET rl == read_length(t.lf)
      length == Val(rl)
      is_baseline == t.n = 0
      process == sof_coding_process(t.n)
      count == Len(t.comps)
      bad == {i \in 1..count : sof_component_error(t, i) # ""}
      h_max == MaxOf({t.comps[i].h : i \in 1..count})
      v_max == MaxOf({t.comps[i].v : i \in 1..count})
      mcu_size == Dimensions(CeilDiv(t.width, h_max * 8),
                             CeilDiv(t.height, v_max * 8))
      component(i) ==
        LET c == t.comps[i]
        IN [identifier |-> c.id,
            horizontal_sampling_factor |-> c.h,
            vertical_sampling_factor |-> c.v,
            quantization_table_index |-> c.tq,
            dct_scale |-> dct_scale_unscaled,
            size |-> Dimensions(CeilDiv(t.width * c.h, h_max),
                                CeilDiv(t.height * c.v, v_max)),
            block_size |-> Dimensions(mcu_size.width * c.h,
                                      mcu_size.height * c.v)]
  IN IF t.eof THEN Io
     ELSE IF ~IsOk(rl) THEN rl
     ELSE IF length <= 6 THEN Format("invalid length in SOF")
     ELSE IF t.precision = 12 /\ is_baseline
       THEN Format("12 bit sample precision is not allowed in baseline")
     ELSE IF t.precision \notin {8, 12} /\ process # "Lossless"
       THEN Format("invalid precision in frame header")
     ELSE IF t.width = 0 THEN Format("zero width in frame header")
     ELSE IF count = 0 THEN Format("zero component count in frame header")
     ELSE IF process = "DctProgressive" /\ count > 4
       THEN Format("progressive frame with more than 4 components")
     ELSE IF length # 6 + 3 * count THEN Format("invalid length in SOF")
     ELSE IF bad # {}
       THEN Format(sof_component_error(t, CHOOSE i \in bad : \A j \in bad : i <= j))
     ELSE Ok([is_baseline |-> is_baseline,
              is_differential |-> sof_is_differential(t.n),
              coding_process |-> process,
              entropy_coding |-> sof_entropy_coding(t.n),
              precision |-> t.precision,
              image_size |-> Dimensions(t.width, t.height),
              output_size |-> output_size_unscaled(Dimensions(t.width, t.height)),
              mcu_size |-> mcu_size,
              components |-> [i \in 1..count |-> component(i)]])

(***************************************************************************)
(* upsampler.rs: Upsampler::new, which accepts a frame only when every     *)
(* component's ratio to the largest sampling factor is 1, 2 or 4 in both   *)
(* axes.                                                                   *)
(***************************************************************************)
Upsampler_new(components) ==
  LET n == Len(components)
      h_max == MaxOf({components[i].horizontal_sampling_factor : i \in 1..n})
      v_max == MaxOf({components[i].vertical_sampling_factor : i \in 1..n})
      integer == \A i \in 1..n :
                   /\ h_max % components[i].horizontal_sampling_factor = 0
                   /\ v_max % components[i].vertical_sampling_factor = 0
      supported == \A i \in 1..n :
                   /\ h_max \div components[i].horizontal_sampling_factor \in {1, 2, 4}
                   /\ v_max \div components[i].vertical_sampling_factor \in {1, 2, 4}
  IN IF ~integer THEN Unsupported("NonIntegerSubsamplingRatio")
     ELSE IF ~supported THEN Unsupported("SubsamplingRatio")
     ELSE Ok(None)

(***************************************************************************)
(* parser.rs: parse_sos.  t is the SOS segment: the length field lf, the   *)
(* component selectors [id, dc, ac], Ss, Se, Ah and Al.  Component indices *)
(* are positions in frame.components, counted from 1 here.                 *)
(***************************************************************************)
sos_position(frame, id) ==
  LET hits == {i \in 1..Len(frame.components) : frame.components[i].identifier = id}
  IN IF hits = {} THEN 0 ELSE CHOOSE i \in hits : \A j \in hits : i <= j

sos_component_error(t, frame, k) ==
  LET c == t.comps[k]
      index == sos_position(frame, c.id)
      before == {sos_position(frame, t.comps[j].id) : j \in 1..(k - 1)}
  IN IF index = 0 THEN "scan component identifier does not match"
     ELSE IF index \in before THEN "duplicate scan component identifier"
     ELSE IF before # {} /\ index < MaxOf(before)
       THEN "the scan component order does not follow the order in the frame header"
     ELSE IF c.dc > 3 \/ (frame.is_baseline /\ c.dc > 1) THEN "invalid dc table index"
     ELSE IF c.ac > 3 \/ (frame.is_baseline /\ c.ac > 1) THEN "invalid ac table index"
     ELSE ""

\* The checks of a lossless scan header: Ss selects the predictor (0..=7),
\* Se and Ah are zero and Al is the point transform.
parse_sos_lossless(t) ==
  IF t.se # 0 THEN "spectral selection end shall be zero in lossless scan"
  ELSE IF t.ah # 0 THEN "successive approximation high shall be zero in lossless scan"
  ELSE IF t.ss > 7 THEN "invalid predictor selection value"
  ELSE ""

parse_sos(t, frame) ==
  LET rl == read_length(t.lf)
      length == Val(rl)
      count == Len(t.comps)
      bad == {k \in 1..count : sos_component_error(t, frame, k) # ""}
      index(k) == sos_position(frame, t.comps[k].id)
      blocks(k) == frame.components[index(k)].horizontal_sampling_factor
                   * frame.components[index(k)].vertical_sampling_factor
      RECURSIVE sum(_)
      sum(k) == IF k = 0 THEN 0 ELSE blocks(k) + sum(k - 1)
      process == frame.coding_process
      lossless == parse_sos_lossless(t)
  IN IF t.eof THEN Io
     ELSE IF ~IsOk(rl) THEN rl
     ELSE IF length = 0 THEN Format("zero length in SOS")
     ELSE IF count = 0 \/ count > 4 THEN Format("invalid component count in scan header")
     ELSE IF length # 4 + 2 * count THEN Format("invalid length in SOS")
     ELSE IF bad # {}
       THEN Format(sos_component_error(t, frame, CHOOSE k \in bad : \A j \in bad : k <= j))
     ELSE IF count > 1 /\ sum(count) > 10
       THEN Format("scan with more than one component and more than 10 blocks per MCU")
     ELSE IF process = "DctProgressive"
               /\ (t.se > 63 \/ t.ss > t.se \/ (t.ss = 0 /\ t.se # 0))
       THEN Format("invalid spectral selection parameters")
     ELSE IF process = "DctProgressive" /\ t.ss # 0 /\ count # 1
       THEN Format("spectral selection scan with AC coefficients can't have more than one component")
     ELSE IF process = "DctProgressive" /\ (t.ah > 13 \/ t.al > 13)
       THEN Format("invalid successive approximation parameters")
     ELSE IF process = "DctProgressive" /\ t.ah # 0 /\ t.ah # t.al + 1
       THEN Format("successive approximation scan with more than one bit of improvement")
     ELSE IF process = "Lossless" /\ lossless # "" THEN Format(lossless)
     ELSE IF process = "DctSequential" /\ (t.ss # 0 \/ t.se # 63)
       THEN Format("spectral selection is not allowed in non-progressive scan")
     ELSE IF process = "DctSequential" /\ (t.ah # 0 \/ t.al # 0)
       THEN Format("successive approximation is not allowed in non-progressive scan")
     ELSE Ok([component_indices |-> [k \in 1..count |-> index(k)],
              dc_table_indices |-> [k \in 1..count |-> t.comps[k].dc],
              ac_table_indices |-> [k \in 1..count |-> t.comps[k].ac],
              spectral_selection |-> [start |-> t.ss, end |-> t.se + 1],
              successive_approximation_high |-> t.ah,
              successive_approximation_low |-> t.al,
              predictor_selection |-> t.ss,
              point_transform |-> t.al])

(***************************************************************************)
(* usize values: usize::MAX itself, or a number the model can count to.    *)
(* The products the decoder compares with the limit never overflow on a    *)
(* 64-bit target (at most 255 * 65535 * 65535), so checked_mul is Some.    *)
(***************************************************************************)
usize_MAX == [is_max |-> TRUE, n |-> 0]
Usize(n) == [is_max |-> FALSE, n |-> n]
usize_unlimited(limit, m) == FALSE
usize_lt(limit, m) == ~limit.is_max /\ limit.n < m

(***************************************************************************)
(* Sample planes.  A plane is its length, the frame component it holds and *)
(* the scans whose entropy-coded data it was computed from.                *)
(***************************************************************************)
EmptyPlane == [len |-> 0, comp |-> 0, data |-> {}]
Plane(len, comp, data) ==
  IF len = 0 THEN EmptyPlane ELSE [len |-> len, comp |-> comp, data |-> data]
is_empty(plane) == plane.len = 0
AllBits == 0..63

(***************************************************************************)
(* decoder.rs: Decoder::new.  Table slots are indexed 0..3 as in the code; *)
(* components (and the arrays indexed by them) are counted from 1.         *)
(***************************************************************************)
Decoder_new ==
  [frame |-> None,
   dc_huffman_tables |-> [i \in 0..3 |-> None],
   ac_huffman_tables |-> [i \in 0..3 |-> None],
   quantization_tables |-> [i \in 0..3 |-> None],
   restart_interval |-> 0,
   adobe_color_transform |-> None,
   color_transform |-> None,
   is_jfif |-> FALSE,
   is_mjpeg |-> FALSE,
   icc_markers |-> <<>>,
   coefficients |-> <<>>,
   coefficients_finished |-> [i \in 1..MAX_COMPONENTS |-> {}],
   decoding_buffer_size_limit |-> usize_MAX]

(***************************************************************************)
(* decoder.rs: PixelFormat::pixel_bytes and Decoder::info.                 *)
(***************************************************************************)
pixel_bytes(format) ==
  CASE format = "L8" -> 1
    [] format = "L16" -> 2
    [] format = "RGB24" -> 3
    [] format = "CMYK32" -> 4

info(d) ==
  IF IsNone(d.frame) THEN None
  ELSE LET frame == Unwrap(d.frame)
           n == Len(frame.components)
           pixel_format ==
             IF n = 1 THEN (IF frame.precision \in 2..8 THEN "L8"
                            ELSE IF frame.precision \in 9..16 THEN "L16"
                            ELSE "panic")
             ELSE IF n = 3 THEN "RGB24"
             ELSE IF n = 4 THEN "CMYK32"
             ELSE "panic"
       IN Some([width |-> frame.output_size.width,
                height |-> frame.output_size.height,
                pixel_format |-> pixel_format,
                coding_process |-> frame.coding_process])

(***************************************************************************)
(* decoder.rs: Decoder::icc_profile.  A chunk is [seq_no, num_markers,     *)
(* data].                                                                  *)
(***************************************************************************)
icc_profile(d) ==
  LET chunks == d.icc_markers
      num_markers == Len(chunks)
      invalid(k) ==
        \/ chunks[k].num_markers # num_markers
        \/ chunks[k].seq_no = 0
        \/ \E j \in 1..(k - 1) : chunks[j].seq_no = chunks[k].seq_no
      marker_present(s) == {k \in 1..num_markers : chunks[k].seq_no = s}
      \* data.extend_from_slice for the sequence numbers lo..=hi, in order.
      RECURSIVE extend_from(_, _)
      extend_from(lo, hi) ==
        IF lo > hi THEN <<>>
        ELSE IF lo = hi THEN chunks[CHOOSE k \in marker_present(lo) : TRUE].data
        ELSE extend_from(lo, (lo + hi) \div 2) \o extend_from((lo + hi) \div 2 + 1, hi)
  IN IF num_markers = 0 \/ num_markers >= 255 THEN None
     ELSE IF \E k \in 1..num_markers : invalid(k) THEN None
     ELSE IF \E s \in 1..num_markers : marker_present(s) = {} THEN None
     ELSE Some(extend_from(1, num_markers))

(***************************************************************************)
(* decoder.rs: Decoder::determine_color_transform.                         *)
(***************************************************************************)
determine_color_transform(d) ==
  LET frame == Unwrap(d.frame)
      n == Len(frame.components)
      ids == [i \in 1..n |-> frame.components[i].identifier]
      adobe == d.adobe_color_transform
  IN IF IsSome(d.color_transform) THEN Unwrap(d.color_transform)
     ELSE IF n = 1 THEN "Grayscale"
     ELSE IF n = 3 /\ ids = <<1, 2, 3>> THEN "YCbCr"
     ELSE IF n = 3 /\ ids = <<1, 34, 35>> THEN "JcsBgYcc"
     ELSE IF n = 3 /\ ids = <<82, 71, 66>> THEN "RGB"
     ELSE IF n = 3 /\ ids = <<114, 103, 98>> THEN "JcsBgRgb"
     ELSE IF n = 3 /\ d.is_jfif THEN "YCbCr"
     ELSE IF adobe = Some("Unknown") /\ n = 3 THEN "RGB"
     ELSE IF adobe = Some("Unknown") /\ n = 4 THEN "CMYK"
     ELSE IF adobe = Some("YCbCr") THEN "YCbCr"
     ELSE IF adobe = Some("YCCK") THEN "YCCK"
     ELSE IF IsNone(adobe) /\ n = 4 THEN "CMYK"
     ELSE IF n = 4 THEN "YCCK"
     ELSE IF n = 3 THEN "YCbCr"
     ELSE "Unknown"

(***************************************************************************)
(* decoder.rs: choose_color_convert_func.                                  *)
(***************************************************************************)
choose_color_convert_func(component_count, color_transform) ==
  IF component_count \notin {3, 4} THEN Panic("component count")
  ELSE IF color_transform = "None" THEN Ok("color_no_convert")
  ELSE IF color_transform \in {"JcsBgYcc", "JcsBgRgb"} THEN Unsupported("ColorTransform")
  ELSE IF color_transform = "Unknown" THEN Format("Unknown colour transform")
  ELSE IF component_count = 3 /\ color_transform = "RGB" THEN Ok("color_convert_line_rgb")
  ELSE IF component_count = 3 /\ color_transform = "YCbCr" THEN Ok("color_convert_line_ycbcr")
  ELSE IF component_count = 4 /\ color_transform = "CMYK" THEN Ok("color_convert_line_cmyk")
  ELSE IF component_count = 4 /\ color_transform = "YCCK" THEN Ok("color_convert_line_ycck")
  ELSE Format("Invalid number of channels")

(***************************************************************************)
(* worker/mod.rs: compute_image_parallel; decoder.rs: compute_image.  The  *)
(* returned raster is its length in bytes, the planes it was composed from *)
(* and the conversion applied.                                             *)
(***************************************************************************)
Raster(len, data, convert) == [len |-> len, planes |-> data, convert |-> convert]

compute_image_parallel(components, data, output_size, color_transform) ==
  LET color_convert_func == choose_color_convert_func(Len(components), color_transform)
      upsampler == Upsampler_new(components)
      line_size == output_size.width * Len(components)
  IN IF ~IsOk(color_convert_func) THEN color_convert_func
     ELSE IF ~IsOk(upsampler) THEN upsampler
     ELSE Ok(Raster(line_size * output_size.height, data, Val(color_convert_func)))

compute_image(components, data, output_size, color_transform) ==
  IF Len(data) = 0 \/ \E i \in 1..Len(data) : is_empty(data[i])
    THEN Format("not all components have data")
  ELSE IF Len(components) = 1
    THEN Ok(Raster(components[1].size.width * components[1].size.height,
                   <<data[1]>>, "none"))
  ELSE compute_image_parallel(components, data, output_size, color_transform)

(***************************************************************************)
(* decoder/lossless.rs: convert_to_u8 and compute_image_lossless.          *)
(***************************************************************************)
convert_to_u8(frame, samples) ==
  IF frame.precision = 8 THEN samples ELSE 2 * samples

compute_image_lossless(frame, data) ==
  LET ncomp == Len(frame.components)
  IN IF Len(data) = 0 \/ \E i \in 1..Len(data) : is_empty(data[i])
       THEN Format("not all components have data")
     ELSE IF ncomp = 1
       THEN Ok(Raster(convert_to_u8(frame, data[1].len), <<data[1]>>, "lossless"))
     ELSE Ok(Raster(convert_to_u8(frame, ncomp * frame.output_size.width
                                                * frame.output_size.height),
                    data, "lossless"))

(***************************************************************************)
(* parser.rs: parse_dqt.  The segment is its length field and the table    *)
(* entries [pq, tq, zero, id] found in it: zero says the table has a zero  *)
(* element, id stands for the table's values.                              *)
(***************************************************************************)
RECURSIVE dqt_tables(_, _, _, _)
dqt_tables(t, k, length, tables) ==
  IF length = 0 THEN Ok(tables)
  ELSE IF k > Len(t.entries) THEN Io
  ELSE LET e == t.entries[k]
       IN IF e.pq > 1 THEN Format("invalid precision in DQT")
          ELSE IF e.tq > 3 THEN Format("invalid destination identifier in DQT")
          ELSE IF length < 65 + 64 * e.pq THEN Format("invalid length in DQT")
          ELSE IF e.zero
            THEN Format("quantization table contains element with a zero value")
          ELSE dqt_tables(t, k + 1, length - (65 + 64 * e.pq),
                          [tables EXCEPT ![e.tq] = Some(e.id)])

parse_dqt(t) ==
  LET rl == read_length(t.lf)
  IN IF t.eof THEN Io
     ELSE IF ~IsOk(rl) THEN rl
     ELSE dqt_tables(t, 1, Val(rl), [i \in 0..3 |-> None])

(***************************************************************************)
(* parser.rs: parse_dht.  Entries are [class, index, size, bad, id]: size  *)
(* is the sum of the sixteen code counts, bad says HuffmanTable::new       *)
(* rejects the table.                                                      *)
(***************************************************************************)
RECURSIVE dht_tables(_, _, _, _, _)
dht_tables(t, is_baseline, k, length, tables) ==
  IF length <= 17
    THEN (IF length # 0 THEN Format("invalid length in DHT") ELSE Ok(tables))
  ELSE IF k > Len(t.entries) THEN Io
  ELSE LET e == t.entries[k]
       IN IF is_baseline = Some(TRUE) /\ e.index > 1
            THEN Format("a maximum of two huffman tables per class are allowed in baseline")
          ELSE IF e.index > 3 THEN Format("invalid destination identifier in DHT")
          ELSE IF e.size = 0 THEN Format("encountered table with zero length in DHT")
          ELSE IF e.size > 256 THEN Format("encountered table with excessive length in DHT")
          ELSE IF e.size > length - 17 THEN Format("invalid length in DHT")
          ELSE IF e.class > 1 THEN Format("invalid class in DHT")
          ELSE IF e.bad THEN Format("bad huffman code length")
          ELSE dht_tables(t, is_baseline, k + 1, length - (17 + e.size),
                 IF e.class = 0
                   THEN [tables EXCEPT !.dc = [@ EXCEPT ![e.index] = Some(e.id)]]
                   ELSE [tables EXCEPT !.ac = [@ EXCEPT ![e.index] = Some(e.id)]])

parse_dht(t, is_baseline) ==
  LET rl == read_length(t.lf)
  IN IF t.eof THEN Io
     ELSE IF ~IsOk(rl) THEN rl
     ELSE dht_tables(t, is_baseline, 1, Val(rl),
                     [dc |-> [i \in 0..3 |-> None], ac |-> [i \in 0..3 |-> None]])

(***************************************************************************)
(* parser.rs: parse_dri and parse_com.                                     *)
(***************************************************************************)
parse_dri(t) ==
  LET rl == read_length(t.lf)
  IN IF t.eof THEN Io
     ELSE IF ~IsOk(rl) THEN rl
     ELSE IF Val(rl) # 2 THEN Format("DRI with invalid length")
     ELSE Ok(t.ri)

parse_com(t) ==
  LET rl == read_length(t.lf)
  IN IF t.eof THEN Io
     ELSE IF ~IsOk(rl) THEN rl
     ELSE Ok(None)

(***************************************************************************)
(* parser.rs: parse_app.  The segment is the marker's number n, the length *)
(* field, the signature its payload starts with and, by signature, the     *)
(* Adobe transform byte or the ICC chunk header and data.                  *)
(***************************************************************************)
\* The APP2 branch: an ICC_PROFILE chunk is [seq_no, num_markers, data].
parse_app_icc(t, length) ==
  IF length > 14 /\ t.sig = "ICC_PROFILE"
    THEN Some([app |-> "Icc",
               icc |-> [seq_no |-> t.seq_no, num_markers |-> t.num_markers,
                        data |-> t.data]])
    ELSE None

parse_app(t) ==
  LET rl == read_length(t.lf)
      length == Val(rl)
  IN IF t.eof THEN Io
     ELSE IF ~IsOk(rl) THEN rl
     ELSE IF t.n = 0 /\ length >= 5 /\ t.sig = "JFIF" THEN Ok(Some([app |-> "Jfif"]))
     ELSE IF t.n = 0 /\ length >= 5 /\ t.sig = "AVI1" THEN Ok(Some([app |-> "Avi1"]))
     ELSE IF t.n = 14 /\ length >= 12 /\ t.sig = "Adobe"
       THEN (IF t.transform = 0 THEN Ok(Some([app |-> "Adobe", color_transform |-> "Unknown"]))
             ELSE IF t.transform = 1 THEN Ok(Some([app |-> "Adobe", color_transform |-> "YCbCr"]))
             ELSE IF t.transform = 2 THEN Ok(Some([app |-> "Adobe", color_transform |-> "YCCK"]))
             ELSE Format("invalid color transform in adobe app segment"))
     ELSE IF t.n = 2 THEN Ok(parse_app_icc(t, length))
     ELSE Ok(None)

(***************************************************************************)
(* worker/immediate.rs: start_immediate sizes the result buffer of a       *)
(* component; get_result_immediate hands it over.                          *)
(***************************************************************************)
start_immediate(component) ==
  component.block_size.width * component.block_size.height
    * component.dct_scale * component.dct_scale

(***************************************************************************)
(* decoder.rs: fill_default_mjpeg_tables installs the default table in     *)
(* each of the slots 0 and 1 that the scan refers to and that is unset.    *)
(***************************************************************************)
fill_default_mjpeg_tables(scan, d) ==
  LET fill(tables, indices) ==
        [i \in 0..3 |-> IF i \in {0, 1} /\ IsNone(tables[i]) /\ i \in Range(indices)
                          THEN Some("default") ELSE tables[i]]
  IN [d EXCEPT !.dc_huffman_tables = fill(@, scan.dc_table_indices),
               !.ac_huffman_tables = fill(@, scan.ac_table_indices)]

(***************************************************************************)
(* The step operators below return the decoder after the step, the result  *)
(* the step returns and the buffers it allocated on the way: "plane" for a *)
(* per-component sample buffer, "raster" for the output image.             *)
(***************************************************************************)
Outcome(d, ret, alloc) == [dec |-> d, ret |-> ret, alloc |-> alloc]

\* What the entropy decoder reports for a scan's data: e.status is "Ok" or
\* the error met in it.
entropy_error(e) ==
  IF e.status = "Io" THEN Io ELSE Format("failed to decode huffman code")

(***************************************************************************)
(* decoder.rs: decode_scan.  finished is the set of scan positions whose   *)
(* component this scan completes; e is the entropy-coded data that follows *)
(* the header: its decoding status, the marker that ends it and a tag for  *)
(* the coefficients it carries.  The MCU loop itself is mcu_step below.    *)
(***************************************************************************)
decode_scan(d, frame, scan, finished, e) ==
  LET n == Len(scan.component_indices)
      components == [k \in 1..n |-> frame.components[scan.component_indices[k]]]
      filled == IF d.is_mjpeg THEN fill_default_mjpeg_tables(scan, d) ELSE d
      is_progressive == frame.coding_process = "DctProgressive"
      in_scan == Range(scan.component_indices)
      written ==
        IF is_progressive
          THEN [filled EXCEPT !.coefficients =
                  [i \in DOMAIN @ |->
                     IF i \in in_scan THEN [@[i] EXCEPT !.data = @ \cup {e.tag}]
                     ELSE @[i]]]
          ELSE filled
      started == IF \E k \in finished : start_immediate(components[k]) > 0
                   THEN {"plane"} ELSE {}
      result(k) ==
        Plane(start_immediate(components[k]), scan.component_indices[k],
              IF is_progressive
                THEN written.coefficients[scan.component_indices[k]].data
                ELSE {e.tag})
      data == [i \in 1..Len(frame.components) |->
                 IF \E k \in finished : scan.component_indices[k] = i
                   THEN result(CHOOSE k \in finished : scan.component_indices[k] = i)
                   ELSE EmptyPlane]
  IN IF \E k \in 1..n :
          IsNone(d.quantization_tables[components[k].quantization_table_index])
       THEN Outcome(d, Format("use of unset quantization table"), {})
     ELSE IF scan.spectral_selection.start = 0
             /\ \E k \in 1..n : IsNone(filled.dc_huffman_tables[scan.dc_table_indices[k]])
       THEN Outcome(filled, Format("scan makes use of unset dc huffman table"), {})
     ELSE IF scan.spectral_selection.end > 1
             /\ \E k \in 1..n : IsNone(filled.ac_huffman_tables[scan.ac_table_indices[k]])
       THEN Outcome(filled, Format("scan makes use of unset ac huffman table"), {})
     ELSE IF e.status # "Ok" THEN Outcome(filled, entropy_error(e), started)
     ELSE Outcome(written,
                  Ok([marker |-> e.marker,
                      data |-> IF finished # {} THEN Some(data) ELSE None]),
                  started)

(***************************************************************************)
(* decoder/lossless.rs: decode_scan_lossless.  The result vectors are      *)
(* allocated before the tables are checked.                                *)
(***************************************************************************)
decode_scan_lossless(d, frame, scan, e) ==
  LET ncomp == Len(scan.component_indices)
      npixel == frame.image_size.height * frame.image_size.width
      results == [k \in 1..ncomp |->
                    Plane(npixel, scan.component_indices[k], {e.tag})]
      allocated == IF npixel > 0 THEN {"plane"} ELSE {}
  IN IF \E k \in 1..ncomp : IsNone(d.dc_huffman_tables[scan.dc_table_indices[k]])
       THEN Outcome(d, Format("scan makes use of unset dc huffman table"), allocated)
     ELSE IF e.status # "Ok" THEN Outcome(d, entropy_error(e), allocated)
     ELSE Outcome(d, Ok([marker |-> e.marker, data |-> Some(results)]), allocated)

(***************************************************************************)
(* decoder.rs: decode_planes.                                              *)
(***************************************************************************)
exceeds_limit(d, frame) ==
  usize_lt(d.decoding_buffer_size_limit,
           Len(frame.components) * frame.output_size.width * frame.output_size.height)

decode_planes(d, planes, planes_u16) ==
  LET frame == Unwrap(d.frame)
      n == Len(frame.components)
      render == frame.coding_process = "DctProgressive" /\ Len(d.coefficients) = n
      unfinished == {i \in 1..n :
                       /\ render
                       /\ d.coefficients_finished[i] # AllBits
                       /\ IsSome(d.quantization_tables[
                                   frame.components[i].quantization_table_index])}
      rendered == [i \in 1..Len(planes) |->
                     IF i \in unfinished
                       THEN Plane(start_immediate(frame.components[i]), i,
                                  d.coefficients[i].data)
                       ELSE planes[i]]
      started == IF \E i \in unfinished : start_immediate(frame.components[i]) > 0
                   THEN {"plane"} ELSE {}
      image == IF frame.coding_process = "Lossless"
                 THEN compute_image_lossless(frame, planes_u16)
                 ELSE compute_image(frame.components, rendered, frame.output_size,
                                    determine_color_transform(d))
      raster == IF IsOk(image) /\ Val(image).len > 0 THEN {"raster"} ELSE {}
  IN IF IsNone(d.frame)
       THEN Outcome(d, Format("end of image encountered before frame"), {})
     ELSE IF exceeds_limit(d, frame)
       THEN Outcome(d, Format("size of decoded image exceeds maximum allowed size"), {})
     ELSE IF \E i \in unfinished : i > Len(planes)
       THEN Outcome(d, Panic("index out of bounds"), started)
     ELSE Outcome(d, image, started \cup raster)

(***************************************************************************)
(* decoder.rs: decode_internal.  loc holds the locals of the call in       *)
(* progress; a step of the marker loop either goes on (ret = None) or      *)
(* makes the call return (ret = Some(result)).                             *)
(***************************************************************************)
IdleLoc ==
  [pc |-> "idle", stop_after_metadata |-> FALSE, previous_marker |-> SOI,
   pending_marker |-> None, scans_processed |-> 0,
   planes |-> <<>>, planes_u16 |-> <<>>]

Go(d, l, alloc, scan) ==
  [dec |-> d, loc |-> l, ret |-> None, alloc |-> alloc, scan |-> scan]
Return(d, r, alloc, scan) ==
  [dec |-> d, loc |-> IdleLoc, ret |-> Some(r), alloc |-> alloc, scan |-> scan]

\* Ok(Vec::new())
EmptyRaster == Raster(0, <<>>, "none")

no_planes(d) == <<>>
\* The planes a call starts with: one empty plane per component of the
\* frame stored so far.
initial_planes(d) ==
  [i \in 1..(IF IsSome(d.frame) THEN Len(Unwrap(d.frame).components) ELSE 0) |->
     EmptyPlane]

\* first is what the reader yields at the start: "SOI", other bytes or its end.
decode_internal_entry(d, stop_after_metadata, first) ==
  IF stop_after_metadata /\ IsSome(d.frame) THEN Return(d, Ok(EmptyRaster), {}, None)
  ELSE IF IsNone(d.frame) /\ first = "eof" THEN Return(d, Io, {}, None)
  ELSE IF IsNone(d.frame) /\ first # "SOI"
    THEN Return(d, Format("first two bytes are not an SOI marker"), {}, None)
  ELSE Go(d, [pc |-> "loop", stop_after_metadata |-> stop_after_metadata,
              previous_marker |-> SOI, pending_marker |-> None,
              scans_processed |-> 0,
              planes |-> initial_planes(d), planes_u16 |-> initial_planes(d)],
          {}, None)

never_hierarchical(d) == FALSE
\* Section 4.10: an image of the supported processes has one frame.
is_hierarchical(d) == IsSome(d.frame)

on_SOF(d, l, t) ==
  LET parsed == parse_sof(t)
      frame == Val(parsed)
      component_count == Len(frame.components)
      upsampler == Upsampler_new(frame.components)
      stored == [d EXCEPT !.frame = Some(frame)]
      empty == [i \in 1..component_count |-> EmptyPlane]
  IN IF is_hierarchical(d) THEN Return(d, Unsupported("Hierarchical"), {}, None)
     ELSE IF ~IsOk(parsed) THEN Return(d, parsed, {}, None)
     ELSE IF frame.is_differential THEN Return(d, Unsupported("Hierarchical"), {}, None)
     ELSE IF frame.entropy_coding = "Arithmetic"
       THEN Return(d, Unsupported("ArithmeticEntropyCoding"), {}, None)
     ELSE IF frame.precision # 8 /\ frame.coding_process # "Lossless"
       THEN Return(d, Unsupported("SamplePrecision"), {}, None)
     ELSE IF frame.precision \notin 2..16
       THEN Return(d, Unsupported("SamplePrecision"), {}, None)
     ELSE IF component_count \notin {1, 3, 4}
       THEN Return(d, Unsupported("ComponentCount"), {}, None)
     ELSE IF ~IsOk(upsampler) THEN Return(d, upsampler, {}, None)
     ELSE IF l.stop_after_metadata THEN Return(stored, Ok(EmptyRaster), {}, None)
     ELSE Go(stored, [l EXCEPT !.planes = empty, !.planes_u16 = empty], {}, None)

\* A scan as the history keeps it: its header and the components whose
\* finished flag it set.
ScanHeader(scan, finished) ==
  [components |-> Range(scan.component_indices),
   ss |-> scan.spectral_selection.start,
   se |-> scan.spectral_selection.end - 1,
   ah |-> scan.successive_approximation_high,
   al |-> scan.successive_approximation_low,
   finished |-> {scan.component_indices[k] : k \in finished}]

scan_frame_unchecked(d) == FALSE
scan_before_frame(d) == IsNone(d.frame)

\* Whether the scan's coefficients count as final for the completion masks.
finalizes_high(scan) == scan.successive_approximation_high = 0
finalizes(scan) == scan.successive_approximation_low = 0

scan_bits(scan) == scan.spectral_selection.start .. (scan.spectral_selection.end - 1)

update_coefficients_finished(masks, scan) ==
  IF finalizes(scan)
    THEN [i \in DOMAIN masks |->
            IF i \in Range(scan.component_indices) /\ masks[i] # AllBits
              THEN masks[i] \cup scan_bits(scan) ELSE masks[i]]
    ELSE masks

\* The scan positions whose finished flag the scan sets.
finished_in_scan(masks, scan) ==
  IF finalizes(scan)
    THEN {k \in 1..Len(scan.component_indices) :
            /\ masks[scan.component_indices[k]] # AllBits
            /\ masks[scan.component_indices[k]] \cup scan_bits(scan) = AllBits}
    ELSE {}

on_SOS(d, l, t, e) ==
  LET frame == Unwrap(d.frame)
      parsed == parse_sos(t, frame)
      scan == Val(parsed)
      n == Len(frame.components)
      d1 == IF frame.coding_process = "DctProgressive" /\ Len(d.coefficients) = 0
              THEN [d EXCEPT !.coefficients =
                      [i \in 1..n |->
                         [len |-> frame.components[i].block_size.width
                                    * frame.components[i].block_size.height * 64,
                          data |-> {}]]]
              ELSE d
      \* lossless frame
      ll == decode_scan_lossless(d1, frame, scan, e)
      ll_data == Unwrap(Val(ll.ret).data)
      ll_put == {i \in 1..Len(ll_data) : ~is_empty(ll_data[i])}
      ll_planes == [i \in 1..Len(l.planes_u16) |->
                      IF i \in ll_put THEN ll_data[i] ELSE l.planes_u16[i]]
      \* DCT frame
      finished == finished_in_scan(d1.coefficients_finished, scan)
      d2 == [d1 EXCEPT !.coefficients_finished = update_coefficients_finished(@, scan)]
      ds == decode_scan(d2, frame, scan, finished, e)
      ds_data == Unwrap(Val(ds.ret).data)
      ds_put == IF IsNone(Val(ds.ret).data) THEN {}
                ELSE {i \in 1..Len(ds_data) :
                        ~is_empty(ds_data[i]) /\ ds.dec.coefficients_finished[i] = AllBits}
      ds_planes == [i \in 1..Len(l.planes) |->
                      IF i \in ds_put THEN ds_data[i] ELSE l.planes[i]]
      header == ScanHeader(scan, IF frame.coding_process = "Lossless" THEN {}
                                 ELSE finished)
  IN IF scan_before_frame(d)
       THEN Return(d, Format("scan encountered before frame"), {}, None)
     ELSE IF IsNone(d.frame) THEN Return(d, Panic("unwrap on None"), {}, None)
     ELSE IF ~IsOk(parsed) THEN Return(d, parsed, {}, None)
     ELSE IF frame.coding_process = "Lossless"
       THEN (IF ~IsOk(ll.ret) THEN Return(ll.dec, ll.ret, ll.alloc, Some(header))
             ELSE IF \E i \in ll_put : i > Len(l.planes_u16)
               THEN Return(ll.dec, Panic("index out of bounds"), ll.alloc, Some(header))
             ELSE Go(ll.dec,
                     [l EXCEPT !.planes_u16 = ll_planes,
                               !.pending_marker = Val(ll.ret).marker,
                               !.scans_processed = @ + 1],
                     ll.alloc, Some(header)))
     ELSE IF ~IsOk(ds.ret) THEN Return(ds.dec, ds.ret, ds.alloc, Some(header))
     ELSE IF \E i \in ds_put : i > Len(l.planes)
       THEN Return(ds.dec, Panic("index out of bounds"), ds.alloc, Some(header))
     ELSE Go(ds.dec,
             [l EXCEPT !.planes = ds_planes,
                       !.pending_marker = Val(ds.ret).marker,
                       !.scans_processed = @ + 1],
             ds.alloc, Some(header))

on_DQT(d, l, t) ==
  LET tables == parse_dqt(t)
  IN IF ~IsOk(tables) THEN Return(d, tables, {}, None)
     ELSE Go([d EXCEPT !.quantization_tables =
                [i \in 0..3 |-> IF IsSome(Val(tables)[i]) THEN Val(tables)[i] ELSE @[i]]],
             l, {}, None)

\* on_DHT with the tables of the segment put in the place of all the slots
on_DHT_all_slots(d, l, t) ==
  LET is_baseline == IF IsSome(d.frame) THEN Some(Unwrap(d.frame).is_baseline) ELSE None
      tables == parse_dht(t, is_baseline)
  IN IF ~IsOk(tables) THEN Return(d, tables, {}, None)
     ELSE Go([d EXCEPT !.dc_huffman_tables = Val(tables).dc,
                       !.ac_huffman_tables = Val(tables).ac],
             l, {}, None)

on_DHT(d, l, t) ==
  LET is_baseline == IF IsSome(d.frame) THEN Some(Unwrap(d.frame).is_baseline) ELSE None
      tables == parse_dht(t, is_baseline)
      or(a, b) == IF IsSome(a) THEN a ELSE b
  IN IF ~IsOk(tables) THEN Return(d, tables, {}, None)
     ELSE Go([d EXCEPT
                !.dc_huffman_tables = [i \in 0..3 |-> or(Val(tables).dc[i], @[i])],
                !.ac_huffman_tables = [i \in 0..3 |-> or(Val(tables).ac[i], @[i])]],
             l, {}, None)

on_DAC(d, l) == Return(d, Unsupported("ArithmeticEntropyCoding"), {}, None)

on_DRI(d, l, t) ==
  LET interval == parse_dri(t)
  IN IF ~IsOk(interval) THEN Return(d, interval, {}, None)
     ELSE Go([d EXCEPT !.restart_interval = Val(interval)], l, {}, None)

on_COM(d, l, t) ==
  LET comment == parse_com(t)
  IN IF ~IsOk(comment) THEN Return(d, comment, {}, None) ELSE Go(d, l, {}, None)

on_APP(d, l, t) ==
  LET parsed == parse_app(t)
      data == Unwrap(Val(parsed))
  IN IF ~IsOk(parsed) THEN Return(d, parsed, {}, None)
     ELSE IF IsNone(Val(parsed)) THEN Go(d, l, {}, None)
     ELSE IF data.app = "Adobe"
       THEN Go([d EXCEPT !.adobe_color_transform = Some(data.color_transform)], l, {}, None)
     ELSE IF data.app = "Jfif" THEN Go([d EXCEPT !.is_jfif = TRUE], l, {}, None)
     ELSE IF data.app = "Avi1" THEN Go([d EXCEPT !.is_mjpeg = TRUE], l, {}, None)
     ELSE IF data.app = "Icc"
       THEN Go([d EXCEPT !.icc_markers = Append(@, data.icc)], l, {}, None)
     ELSE Go(d, l, {}, None)

on_RST_ignored(d, l) == Go(d, l, {}, None)
on_RST(d, l) ==
  IF l.previous_marker # SOS
    THEN Return(d, Format("RST found outside of entropy-coded data"), {}, None)
    ELSE Go(d, l, {}, None)

on_DNL(d, l) ==
  IF l.previous_marker # SOS \/ l.scans_processed # 1
    THEN Return(d, Format("DNL is only allowed immediately after the first scan"), {}, None)
    ELSE Return(d, Unsupported("DNL"), {}, None)

on_DHP_EXP(d, l) == Return(d, Unsupported("Hierarchical"), {}, None)

on_other(d, l) == Return(d, Format("marker found where not allowed"), {}, None)

\* EOI leaves the loop; what follows the loop is the end of decode_internal.
on_EOI(d, l) ==
  LET out == decode_planes(d, l.planes, l.planes_u16)
  IN IF IsNone(d.frame)
       THEN Return(d, Format("end of image encountered before frame"), {}, None)
     ELSE Return(out.dec, out.ret, out.alloc, None)

(***************************************************************************)
(* decoder.rs: set_color_transform and set_max_decoding_buffer_size.       *)
(***************************************************************************)
set_color_transform(d, transform) == [d EXCEPT !.color_transform = Some(transform)]
set_max_decoding_buffer_size(d, max) == [d EXCEPT !.decoding_buffer_size_limit = Usize(max)]

(***************************************************************************)
(* decoder.rs: read_info and decode hand decode_internal's result on;      *)
(* read_info maps the pixels away.                                         *)
(***************************************************************************)
api_result(stop_after_metadata, r) ==
  IF stop_after_metadata /\ IsOk(r) THEN Ok("()") ELSE r
api_name(stop_after_metadata) == IF stop_after_metadata THEN "read_info" ELSE "decode"

NoResult == [op |-> "none", r |-> Err("None", "")]

(***************************************************************************)
(* The history the properties speak about: segments and calls count what   *)
(* the decoder was fed, fresh says that res is the result of the call that *)
(* returned in the last step, any_ok that some call has returned Ok,       *)
(* last_marker is the marker of the last loop step, sof_met that the loop  *)
(* has met an SOFn, allocated collects the buffers of the current call and *)
(* scans the scans handed to a scan decoder, last_scan the one of the last *)
(* step; budget is the number of segments the reader holds.                *)
(***************************************************************************)
InitHist ==
  [segments |-> 0, budget |-> MaxSegments, calls |-> 0, fresh |-> FALSE,
   any_ok |-> FALSE,
   last_marker |-> None, sof_met |-> FALSE, allocated |-> {}, scans |-> {},
   last_scan |-> None]

Returned(s) == IsSome(s.ret)

NextHist(h, s, marker, entry) ==
  [segments |-> IF entry THEN h.segments ELSE h.segments + 1,
   budget |-> h.budget,
   calls |-> IF entry THEN h.calls + 1 ELSE h.calls,
   fresh |-> Returned(s),
   any_ok |-> h.any_ok \/ (Returned(s) /\ IsOk(Unwrap(s.ret))),
   last_marker |-> IF entry THEN None ELSE Some(marker),
   sof_met |-> h.sof_met \/ (~entry /\ marker.kind = "SOF"),
   allocated |-> IF entry THEN s.alloc ELSE h.allocated \cup s.alloc,
   scans |-> IF IsSome(s.scan) THEN h.scans \cup {Unwrap(s.scan)} ELSE h.scans,
   last_scan |-> s.scan]

(***************************************************************************)
(* The actions.  A call is entered from the idle state; while it is in     *)
(* progress each action feeds the marker loop the next marker and its      *)
(* segment, until a step makes the call return.                            *)
(***************************************************************************)
Apply(s, stop_after_metadata, marker, entry) ==
  /\ dec' = s.dec
  /\ loc' = IF Returned(s) THEN IdleLoc
            ELSE IF entry THEN s.loc
            ELSE [s.loc EXCEPT !.previous_marker = marker]
  /\ res' = IF Returned(s)
              THEN [op |-> api_name(stop_after_metadata),
                    r |-> api_result(stop_after_metadata, Unwrap(s.ret))]
              ELSE res
  /\ hist' = NextHist(hist, s, marker, entry)

\* The loop takes the pending marker if there is one and reads one otherwise.
Reads(marker) ==
  /\ loc.pc = "loop"
  /\ hist.segments < hist.budget
  /\ IsNone(loc.pending_marker) \/ loc.pending_marker = Some(marker)

Taken == [loc EXCEPT !.pending_marker = None]

ReadInfo(first) ==
  /\ loc.pc = "idle"
  /\ hist.calls < MaxCalls
  /\ Apply(decode_internal_entry(dec, TRUE, first), TRUE, SOI, TRUE)
  /\ UNCHANGED ref

Decode(first) ==
  /\ loc.pc = "idle"
  /\ hist.calls < MaxCalls
  /\ Apply(decode_internal_entry(dec, FALSE, first), FALSE, SOI, TRUE)
  /\ UNCHANGED ref

SetColorTransform(transform) ==
  /\ loc.pc = "idle"
  /\ dec' = set_color_transform(dec, transform)
  /\ hist' = [hist EXCEPT !.fresh = FALSE, !.last_scan = None]
  /\ UNCHANGED <<loc, res, ref>>

SetMaxDecodingBufferSize(max) ==
  /\ loc.pc = "idle"
  /\ dec' = set_max_decoding_buffer_size(dec, max)
  /\ hist' = [hist EXCEPT !.fresh = FALSE, !.last_scan = None]
  /\ UNCHANGED <<loc, res, ref>>

MarkerSOF(t) ==
  /\ Reads(Mk("SOF", t.n))
  /\ Apply(on_SOF(dec, Taken, t), loc.stop_after_metadata, Mk("SOF", t.n), FALSE)
  /\ UNCHANGED ref

MarkerSOS(t, e) ==
  /\ Reads(SOS)
  /\ Apply(on_SOS(dec, Taken, t, e), loc.stop_after_metadata, SOS, FALSE)
  /\ UNCHANGED ref

MarkerDQT(t) ==
  /\ Reads(Mk("DQT", 0))
  /\ Apply(on_DQT(dec, Taken, t), loc.stop_after_metadata, Mk("DQT", 0), FALSE)
  /\ UNCHANGED ref

MarkerDHT(t) ==
  /\ Reads(Mk("DHT", 0))
  /\ Apply(on_DHT(dec, Taken, t), loc.stop_after_metadata, Mk("DHT", 0), FALSE)
  /\ UNCHANGED ref

MarkerDAC ==
  /\ Reads(Mk("DAC", 0))
  /\ Apply(on_DAC(dec, Taken), loc.stop_after_metadata, Mk("DAC", 0), FALSE)
  /\ UNCHANGED ref

MarkerDRI(t) ==
  /\ Reads(Mk("DRI", 0))
  /\ Apply(on_DRI(dec, Taken, t), loc.stop_after_metadata, Mk("DRI", 0), FALSE)
  /\ UNCHANGED ref

MarkerCOM(t) ==
  /\ Reads(Mk("COM", 0))
  /\ Apply(on_COM(dec, Taken, t), loc.stop_after_metadata, Mk("COM", 0), FALSE)
  /\ UNCHANGED ref

MarkerAPP(t) ==
  /\ Reads(Mk("APP", t.n))
  /\ Apply(on_APP(dec, Taken, t), loc.stop_after_metadata, Mk("APP", t.n), FALSE)
  /\ UNCHANGED ref

MarkerRST(n) ==
  /\ Reads(Mk("RST", n))
  /\ Apply(on_RST(dec, Taken), loc.stop_after_metadata, Mk("RST", n), FALSE)
  /\ UNCHANGED ref

MarkerDNL ==
  /\ Reads(Mk("DNL", 0))
  /\ Apply(on_DNL(dec, Taken), loc.stop_after_metadata, Mk("DNL", 0), FALSE)
  /\ UNCHANGED ref

MarkerDHP ==
  /\ Reads(Mk("DHP", 0))
  /\ Apply(on_DHP_EXP(dec, Taken), loc.stop_after_metadata, Mk("DHP", 0), FALSE)
  /\ UNCHANGED ref

MarkerEXP ==
  /\ Reads(Mk("EXP", 0))
  /\ Apply(on_DHP_EXP(dec, Taken), loc.stop_after_metadata, Mk("EXP", 0), FALSE)
  /\ UNCHANGED ref

MarkerEOI ==
  /\ Reads(EOI)
  /\ Apply(on_EOI(dec, Taken), loc.stop_after_metadata, EOI, FALSE)
  /\ UNCHANGED ref

MarkerOther(marker) ==
  /\ Reads(marker)
  /\ Apply(on_other(dec, Taken), loc.stop_after_metadata, marker, FALSE)
  /\ UNCHANGED ref

\* read_marker meets the end of the reader.
ReadMarkerEof ==
  /\ loc.pc = "loop"
  /\ hist.segments < hist.budget
  /\ IsNone(loc.pending_marker)
  /\ Apply(Return(dec, Io, {}, None), loc.stop_after_metadata, Mk("none", 0), FALSE)
  /\ UNCHANGED ref

(***************************************************************************)
(* Segments the reader may hold.                                           *)
(***************************************************************************)
FrameComponent(id) == [id |-> id, h |-> 1, v |-> 1, tq |-> 0]
FrameComponents(ids) == [i \in 1..Len(ids) |-> FrameComponent(ids[i])]
SofSegment(n, precision, height, width, ids) ==
  [n |-> n, lf |-> 8 + 3 * Len(ids), precision |-> precision, height |-> height,
   width |-> width, comps |-> FrameComponents(ids), eof |-> FALSE]

ScanComponents(ids) == [i \in 1..Len(ids) |-> [id |-> ids[i], dc |-> 0, ac |-> 0]]
SosSegment(ids, ss, se, ah, al) ==
  [lf |-> 6 + 2 * Len(ids), comps |-> ScanComponents(ids),
   ss |-> ss, se |-> se, ah |-> ah, al |-> al, eof |-> FALSE]

DqtSegment(tq) ==
  [lf |-> 67, eof |-> FALSE,
   entries |-> <<[pq |-> 0, tq |-> tq, zero |-> FALSE, id |-> 1]>>]
\* One DC and one AC table for slot 0, of one code each.
DhtSegment ==
  [lf |-> 38, eof |-> FALSE,
   entries |-> <<[class |-> 0, index |-> 0, size |-> 1, bad |-> FALSE, id |-> 1],
                 [class |-> 1, index |-> 0, size |-> 1, bad |-> FALSE, id |-> 1]>>]
DriSegment(ri) == [lf |-> 4, eof |-> FALSE, ri |-> ri]
ComSegment == [lf |-> 2, eof |-> FALSE]
AppSegment(n, sig, transform) ==
  [n |-> n, lf |-> 16, eof |-> FALSE, sig |-> sig, transform |-> transform,
   seq_no |-> 0, num_markers |-> 0, data |-> <<>>]
IccSegment(seq_no, num_markers, data) ==
  [n |-> 2, lf |-> 17, eof |-> FALSE, sig |-> "ICC_PROFILE", transform |-> 0,
   seq_no |-> seq_no, num_markers |-> num_markers, data |-> data]
Truncated(t) == [t EXCEPT !.eof = TRUE]

Entropy(status, marker) == [status |-> status, marker |-> marker, tag |-> 1]

IdLists == {<<1>>, <<1, 2, 3>>, <<1, 2, 3, 4>>}

LifeSof ==
  {SofSegment(n, 8, MaxHeight, w, ids) :
     n \in {0, 2}, w \in 1..MaxWidth, ids \in {<<1>>, <<1, 2, 3>>}}
  \cup {SofSegment(3, p, MaxHeight, 1, ids) :
          p \in {2, 8, 9, 17}, ids \in {<<1>>, <<1, 2, 3>>}}
  \cup {SofSegment(n, 8, 1, 1, <<1, 2, 3, 4>>) : n \in {0, 3, 5, 9}}
  \cup {SofSegment(0, 8, 0, 1, <<1>>), SofSegment(0, 8, 1, 0, <<1>>),
        SofSegment(0, 8, 1, 1, <<1, 2>>), Truncated(SofSegment(0, 8, 1, 1, <<1>>))}

LifeSos ==
  {SosSegment(ids, 0, 63, 0, 0) : ids \in IdLists}
  \cup {SosSegment(<<1>>, 0, 0, 0, 0), SosSegment(<<1, 2, 3>>, 0, 0, 0, 0),
        SosSegment(<<1>>, 1, 0, 0, 0), SosSegment(<<1, 2, 3>>, 1, 0, 0, 0),
        Truncated(SosSegment(<<1>>, 0, 63, 0, 0))}

LifeEntropy ==
  {Entropy("Ok", None), Entropy("Ok", Some(EOI)), Entropy("Format", None)}

LifeLimits == {2}

(***************************************************************************)
(* The life of one decoder: calls of read_info and decode over a reader    *)
(* that holds any sequence of segments, with the buffer limit set between  *)
(* calls.                                                                  *)
(***************************************************************************)
Init ==
  /\ dec = Decoder_new
  /\ loc = IdleLoc
  /\ res = NoResult
  /\ hist = InitHist
  /\ ref = None

Next ==
  \/ \E first \in {"SOI", "other", "eof"} : ReadInfo(first)
  \/ \E first \in {"SOI", "other", "eof"} : Decode(first)
  \/ \E max \in LifeLimits : SetMaxDecodingBufferSize(max)
  \/ \E t \in LifeSof : MarkerSOF(t)
  \/ \E t \in LifeSos, e \in LifeEntropy : MarkerSOS(t, e)
  \/ MarkerDQT(DqtSegment(0))
  \/ MarkerDHT(DhtSegment)
  \/ MarkerDNL
  \/ MarkerEOI
  \/ ReadMarkerEof

Spec == Init /\ [][Next]_vars

(***************************************************************************)
(* Properties of the life of one decoder.                                  *)
(***************************************************************************)
DecodeReturned == hist.fresh /\ res.op = "decode"
LimitError == Format("size of decoded image exceeds maximum allowed size")
LastMarkerIs(kind) ==
  IsSome(hist.last_marker) /\ Unwrap(hist.last_marker).kind = kind
Estimate(frame) ==
  Len(frame.components) * frame.output_size.width * frame.output_size.height

\* C1: every buffer decode() returns has width * height * pixel_bytes(pixel_format)
\* bytes, for the width, height and pixel format that info() reports.
C1_DecodeLength ==
  (DecodeReturned /\ IsOk(res.r)) =>
    LET i == Unwrap(info(dec))
    IN Val(res.r).len = i.width * i.height * pixel_bytes(i.pixel_format)

\* C3: info() is None as long as no call of read_info() or decode() has
\* returned Ok.
C3_InfoNoneBeforeOk == ~hist.any_ok => IsNone(info(dec))

\* C4: a scan is handed to a scan decoder and a call returns Ok only after
\* the loop has met an SOFn and stored its frame; an SOS met before any SOFn
\* and an EOI met with no SOFn make the call return a Format error.
C4_FrameBeforeScan ==
  /\ (hist.scans # {} \/ hist.any_ok) => (hist.sof_met /\ IsSome(dec.frame))
  /\ (LastMarkerIs("SOS") /\ ~hist.sof_met) =>
       (loc.pc = "idle" /\ res.r = Format("scan encountered before frame"))
  /\ (LastMarkerIs("EOI") /\ ~hist.sof_met) =>
       (loc.pc = "idle" /\ res.r = Format("end of image encountered before frame"))

C4_ScanBeforeFrame ==
  /\ LastMarkerIs("SOS") /\ ~hist.sof_met
  /\ hist.fresh /\ res.op = "decode" /\ res.r.kind = "Format"

\* C5: once a frame is stored, a step of the loop that meets an SOFn makes
\* the call return Unsupported(Hierarchical), and no step changes the frame.
C5_OneFrame ==
  [][IsSome(dec.frame) =>
       /\ dec'.frame = dec.frame
       /\ (hist'.segments = hist.segments + 1
           /\ IsSome(hist'.last_marker) /\ Unwrap(hist'.last_marker).kind = "SOF")
          => (loc'.pc = "idle" /\ hist'.fresh
              /\ res'.r = Unsupported("Hierarchical"))]_vars

C5_SecondFrameAfterReadInfo ==
  /\ LastMarkerIs("SOF") /\ IsSome(dec.frame)
  /\ hist.any_ok /\ hist.calls = 2
  /\ DecodeReturned /\ res.r = Unsupported("Hierarchical")

\* C10 as stated: the limit error is returned before any buffer, sample
\* plane or raster, was allocated by the call.
C10_RejectedBeforeAnyBuffer ==
  (DecodeReturned /\ res.r = LimitError) => hist.allocated = {}

\* C10: a decode() of a frame whose estimate exceeds the limit returns no
\* pixels; the limit error is returned at the end of the image, before the
\* output raster is allocated (the planes of the scans decoded so far are),
\* and only for a frame that exceeds the limit; with the default limit no
\* call returns it.
C10_RejectedBeforeRaster ==
  /\ (DecodeReturned /\ IsSome(dec.frame)
      /\ ~dec.decoding_buffer_size_limit.is_max
      /\ Estimate(Unwrap(dec.frame)) > dec.decoding_buffer_size_limit.n)
       => ~IsOk(res.r)
  /\ (DecodeReturned /\ res.r = LimitError)
       => /\ "raster" \notin hist.allocated
          /\ LastMarkerIs("EOI")
          /\ ~dec.decoding_buffer_size_limit.is_max
          /\ Estimate(Unwrap(dec.frame)) > dec.decoding_buffer_size_limit.n
  /\ (hist.fresh /\ dec.decoding_buffer_size_limit.is_max) => res.r # LimitError

C10_RejectedAfterPlanes ==
  /\ DecodeReturned /\ res.r = LimitError
  /\ "plane" \in hist.allocated

(***************************************************************************)
(* Two decoders over the same bytes.  The first (dec, loc, res) is asked   *)
(* read_info() and then decode(); the second (ref) is asked decode()       *)
(* alone.  Both are fed the same markers and segments; ref.info_between    *)
(* keeps the info() of the first taken when its read_info() returned.      *)
(***************************************************************************)
RefTaken == [ref.loc EXCEPT !.pending_marker = None]

RefApply(s, marker, entry) ==
  [ref EXCEPT
     !.dec = s.dec,
     !.loc = IF Returned(s) THEN IdleLoc
             ELSE IF entry THEN s.loc
             ELSE [s.loc EXCEPT !.previous_marker = marker],
     !.res = IF Returned(s)
               THEN [op |-> "decode", r |-> api_result(FALSE, Unwrap(s.ret))]
               ELSE @]

InfoBetween(s) ==
  IF Returned(s) /\ IsOk(Unwrap(s.ret)) /\ loc.stop_after_metadata
    THEN Some(info(s.dec)) ELSE ref.info_between

PairFeed(marker, s, r) ==
  /\ Reads(marker)
  /\ ref.loc.pc = "loop"
  /\ IsNone(ref.loc.pending_marker) \/ ref.loc.pending_marker = Some(marker)
  /\ Apply(s, loc.stop_after_metadata, marker, FALSE)
  /\ ref' = [RefApply(r, marker, FALSE) EXCEPT !.info_between = InfoBetween(s)]

PairInit ==
  /\ dec = Decoder_new
  /\ loc = IdleLoc
  /\ res = NoResult
  /\ hist = InitHist
  /\ ref = [dec |-> Decoder_new, loc |-> IdleLoc, res |-> NoResult,
            info_between |-> None]

PairSetMax(max) ==
  /\ loc.pc = "idle" /\ hist.calls = 0
  /\ dec' = set_max_decoding_buffer_size(dec, max)
  /\ ref' = [ref EXCEPT !.dec = set_max_decoding_buffer_size(@, max)]
  /\ UNCHANGED <<loc, res, hist>>

\* read_info() on the first decoder, decode() on the second.
PairStart(first) ==
  /\ loc.pc = "idle" /\ hist.calls = 0
  /\ Apply(decode_internal_entry(dec, TRUE, first), TRUE, SOI, TRUE)
  /\ ref' = RefApply(decode_internal_entry(ref.dec, FALSE, first), SOI, TRUE)

\* decode() on the first decoder, once its read_info() has returned Ok.
PairDecode ==
  /\ loc.pc = "idle" /\ hist.calls = 1
  /\ res.op = "read_info" /\ IsOk(res.r)
  /\ Apply(decode_internal_entry(dec, FALSE, "SOI"), FALSE, SOI, TRUE)
  /\ UNCHANGED ref

PairSOF(t) ==
  PairFeed(Mk("SOF", t.n), on_SOF(dec, Taken, t), on_SOF(ref.dec, RefTaken, t))
PairSOS(t, e) ==
  PairFeed(SOS, on_SOS(dec, Taken, t, e), on_SOS(ref.dec, RefTaken, t, e))
PairDQT(t) ==
  PairFeed(Mk("DQT", 0), on_DQT(dec, Taken, t), on_DQT(ref.dec, RefTaken, t))
PairDHT(t) ==
  PairFeed(Mk("DHT", 0), on_DHT(dec, Taken, t), on_DHT(ref.dec, RefTaken, t))
PairDRI(t) ==
  PairFeed(Mk("DRI", 0), on_DRI(dec, Taken, t), on_DRI(ref.dec, RefTaken, t))
PairAPP(t) ==
  PairFeed(Mk("APP", t.n), on_APP(dec, Taken, t), on_APP(ref.dec, RefTaken, t))
PairRST(n) ==
  PairFeed(Mk("RST", n), on_RST(dec, Taken), on_RST(ref.dec, RefTaken))
PairDNL ==
  PairFeed(Mk("DNL", 0), on_DNL(dec, Taken), on_DNL(ref.dec, RefTaken))
PairEOI ==
  PairFeed(EOI, on_EOI(dec, Taken), on_EOI(ref.dec, RefTaken))
PairEof ==
  /\ IsNone(loc.pending_marker) /\ IsNone(ref.loc.pending_marker)
  /\ PairFeed(Mk("none", 0), Return(dec, Io, {}, None), Return(ref.dec, Io, {}, None))

PairSof ==
  {SofSegment(0, 8, MaxHeight, w, ids) : w \in 1..MaxWidth, ids \in {<<1>>, <<1, 2, 3>>}}
  \cup {SofSegment(2, 8, MaxHeight, 1, <<1, 2, 3>>), SofSegment(3, 8, MaxHeight, 1, <<1>>),
        SofSegment(9, 8, 1, 1, <<1>>), Truncated(SofSegment(0, 8, 1, 1, <<1>>))}

PairSos ==
  {SosSegment(<<1>>, 0, 63, 0, 0), SosSegment(<<1, 2, 3>>, 0, 63, 0, 0),
   SosSegment(<<2>>, 0, 63, 0, 0), SosSegment(<<1, 2, 3>>, 0, 0, 0, 0),
   SosSegment(<<1>>, 1, 63, 0, 0), SosSegment(<<1>>, 1, 0, 0, 0)}

PairEntropy ==
  {Entropy("Ok", None), Entropy("Ok", Some(EOI)), Entropy("Ok", Some(Mk("DNL", 0))),
   Entropy("Format", None)}

PairNext ==
  \/ \E max \in LifeLimits : PairSetMax(max)
  \/ \E first \in {"SOI", "other", "eof"} : PairStart(first)
  \/ PairDecode
  \/ \E t \in PairSof : PairSOF(t)
  \/ \E t \in PairSos, e \in PairEntropy : PairSOS(t, e)
  \/ PairDQT(DqtSegment(0))
  \/ PairDHT(DhtSegment)
  \/ PairDRI(DriSegment(1))
  \/ \E t \in {AppSegment(0, "JFIF", 0), AppSegment(14, "Adobe", 0)} : PairAPP(t)
  \/ PairRST(0)
  \/ PairDNL
  \/ PairEOI
  \/ PairEof

SpecPair == PairInit /\ [][PairNext]_vars

\* C2: read_info() and then decode() on one decoder end as decode() alone
\* on a fresh decoder over the same bytes does: an error of read_info() is
\* the error of decode() alone; otherwise the two decode() calls are in the
\* loop over the same bytes together, return together, with the same pixels
\* or the same error, and leave the same info(), which is the info() taken
\* between read_info() and decode().
C2_ReadInfoThenDecode ==
  /\ (loc.pc = "idle" /\ res.op = "read_info" /\ ~IsOk(res.r))
       => (ref.loc.pc = "idle" /\ ref.res.r = res.r /\ info(ref.dec) = info(dec))
  /\ (loc.pc = "idle" /\ res.op = "read_info" /\ IsOk(res.r))
       => (ref.loc.pc = "loop" /\ info(ref.dec) = info(dec)
           /\ ref.info_between = Some(info(dec)))
  /\ (loc.pc = "loop" /\ ~loc.stop_after_metadata)
       => (ref.loc.pc = "loop" /\ ref.loc.pending_marker = loc.pending_marker
           /\ ref.dec = dec)
  /\ (loc.pc = "idle" /\ res.op = "decode")
       => (ref.loc.pc = "idle" /\ ref.res = res /\ info(ref.dec) = info(dec)
           /\ ref.info_between = Some(info(dec)))

C2_BothDecoded ==
  /\ loc.pc = "idle" /\ res.op = "decode" /\ IsOk(res.r)
  /\ hist.calls = 2
  /\ ref.res = res /\ Val(res.r).len > 0

(***************************************************************************)
(* Scans of DCT frames with spectral selection and successive              *)
(* approximation, for the completion masks.                                *)
(***************************************************************************)
MaskSof ==
  {SofSegment(2, 8, MaxHeight, 1, <<1, 2, 3>>), SofSegment(2, 8, MaxHeight, 1, <<1>>),
   SofSegment(0, 8, MaxHeight, 1, <<1>>)}

MaskBands == {<<0, 0>>, <<1, 5>>, <<1, 63>>, <<0, 63>>}
MaskApproximations == {<<0, 0>>, <<0, 1>>, <<1, 0>>}

MaskSos ==
  {SosSegment(ids, b[1], b[2], a[1], a[2]) :
     ids \in {<<1>>, <<1, 2, 3>>}, b \in MaskBands, a \in MaskApproximations}

MaskNext ==
  \/ Decode("SOI")
  \/ \E t \in MaskSof : MarkerSOF(t)
  \/ \E t \in MaskSos, e \in {Entropy("Ok", None), Entropy("Format", None)} :
       MarkerSOS(t, e)
  \/ MarkerDQT(DqtSegment(0))
  \/ MarkerDHT(DhtSegment)
  \/ MarkerEOI

SpecMask == Init /\ [][MaskNext]_vars

Finalized(c, k, zero) ==
  \E sc \in hist.scans :
    /\ c \in sc.components
    /\ IF zero = "Al" THEN sc.al = 0 ELSE sc.ah = 0
    /\ sc.ss <= k /\ k <= sc.se

DctFrame == IsSome(dec.frame) /\ Unwrap(dec.frame).coding_process # "Lossless"

\* C7 as stated: bit k of a component's mask is set iff some processed scan
\* with the component had Ah = 0 and Ss <= k <= Se.
C7_MaskOfAhZeroScans ==
  DctFrame =>
    \A c \in 1..MAX_COMPONENTS, k \in AllBits :
      k \in dec.coefficients_finished[c] <=> Finalized(c, k, "Ah")

\* C7: in a DCT frame bit k of a component's mask is set iff some processed
\* scan with the component had successive-approximation low Al = 0 and
\* Ss <= k <= Se, and a scan sets the finished flag of exactly the components
\* whose mask it makes all ones.
C7_MaskOfAlZeroScans ==
  /\ [](DctFrame =>
          \A c \in 1..MAX_COMPONENTS, k \in AllBits :
            k \in dec.coefficients_finished[c] <=> Finalized(c, k, "Al"))
  /\ [][(DctFrame /\ IsSome(hist'.last_scan)) =>
          Unwrap(hist'.last_scan).finished =
            {c \in 1..MAX_COMPONENTS :
               /\ dec.coefficients_finished[c] # AllBits
               /\ dec'.coefficients_finished[c] = AllBits}]_vars

C7_FinishedByRefinementScan ==
  /\ DctFrame /\ IsSome(hist.last_scan)
  /\ Unwrap(hist.last_scan).ah # 0 /\ Unwrap(hist.last_scan).al = 0
  /\ Unwrap(hist.last_scan).finished # {}
  /\ loc.pc = "loop" /\ ~is_empty(loc.planes[1])

(***************************************************************************)
(* The colour transform: frames of one, three and four components with the *)
(* identifiers the code tells apart, after JFIF and Adobe segments, with   *)
(* and without a transform set by the caller.                              *)
(***************************************************************************)
MaxColorSegments == 6

ColorIds == {<<1>>, <<1, 2, 3>>, <<82, 71, 66>>, <<4, 5, 6>>, <<1, 2, 3, 4>>}
ColorSof == {SofSegment(0, 8, 1, 1, ids) : ids \in ColorIds}
ColorSos == {SosSegment(ids, 0, 63, 0, 0) : ids \in ColorIds}
ColorApp ==
  {AppSegment(0, "JFIF", 0)} \cup {AppSegment(14, "Adobe", x) : x \in 0..2}

ColorInit ==
  /\ dec = Decoder_new
  /\ loc = IdleLoc
  /\ res = NoResult
  /\ hist = [InitHist EXCEPT !.budget = MaxColorSegments]
  /\ ref = None

ColorNext ==
  \/ Decode("SOI")
  \/ SetColorTransform("None")
  \/ \E t \in ColorApp : MarkerAPP(t)
  \/ \E t \in ColorSof : MarkerSOF(t)
  \/ \E t \in ColorSos : MarkerSOS(t, Entropy("Ok", None))
  \/ MarkerDQT(DqtSegment(0))
  \/ MarkerDHT(DhtSegment)
  \/ MarkerEOI

SpecColor == ColorInit /\ [][ColorNext]_vars

FrameIds ==
  [i \in 1..Len(Unwrap(dec.frame).components) |->
     Unwrap(dec.frame).components[i].identifier]

\* C8: when set_color_transform was never called, a frame of one component is
\* Grayscale, one of three components with identifiers (1,2,3) is YCbCr and
\* with ('R','G','B') RGB, and one of four components is CMYK if the Adobe
\* transform is Unknown or no Adobe segment was seen and YCCK in every other
\* case.
C8_TransformChosen ==
  (IsSome(dec.frame) /\ IsNone(dec.color_transform)) =>
    LET n == Len(FrameIds)
        chosen == determine_color_transform(dec)
    IN /\ n = 1 => chosen = "Grayscale"
       /\ (n = 3 /\ FrameIds = <<1, 2, 3>>) => chosen = "YCbCr"
       /\ (n = 3 /\ FrameIds = <<82, 71, 66>>) => chosen = "RGB"
       /\ n = 4 =>
            chosen = IF dec.adobe_color_transform \in {None, Some("Unknown")}
                       THEN "CMYK" ELSE "YCCK"

\* The same without the four-component case: it holds.
C8_OneAndThreeComponents ==
  (IsSome(dec.frame) /\ IsNone(dec.color_transform)) =>
    LET n == Len(FrameIds)
        chosen == determine_color_transform(dec)
    IN /\ n = 1 => chosen = "Grayscale"
       /\ (n = 3 /\ FrameIds = <<1, 2, 3>>) => chosen = "YCbCr"
       /\ (n = 3 /\ FrameIds = <<82, 71, 66>>) => chosen = "RGB"
       /\ (n = 4 /\ dec.adobe_color_transform \in {None, Some("Unknown")}) =>
            chosen = "CMYK"
       /\ (n = 4 /\ dec.adobe_color_transform = Some("YCCK")) => chosen = "YCCK"

\* A four-component frame after an Adobe segment with transform 1 is taken
\* for YCbCr, which no four-component conversion exists for: its decode fails.
C8_FourComponentsAdobeYCbCr ==
  /\ DecodeReturned
  /\ IsSome(dec.frame) /\ Len(FrameIds) = 4
  /\ dec.adobe_color_transform = Some("YCbCr")
  /\ IsNone(dec.color_transform)
  /\ determine_color_transform(dec) = "YCbCr"
  /\ res.r = Format("Invalid number of channels")

(***************************************************************************)
(* The ICC profile: a reader that holds one stream of APP2 ICC_PROFILE     *)
(* segments and then ends.  The streams are all short ones over a few      *)
(* sequence numbers and declared counts, and the profiles of 254 and of    *)
(* 255 chunks in ascending order; chunk s carries the one byte s.          *)
(***************************************************************************)
MaxIccChunks == 3

IccChunk(seq_no, num_markers) == IccSegment(seq_no, num_markers, <<seq_no>>)

RECURSIVE IccStreamsOf(_)
IccStreamsOf(n) ==
  IF n = 0 THEN {<<>>}
  ELSE {Append(stream, IccChunk(seq_no, num_markers)) :
          stream \in IccStreamsOf(n - 1), seq_no \in 0..MaxIccChunks,
          num_markers \in (MaxIccChunks - 1)..MaxIccChunks}

IccProfileOf(n) == [k \in 1..n |-> IccChunk(k, n)]

IccStreams ==
  UNION {IccStreamsOf(n) : n \in 1..MaxIccChunks}
  \cup {IccProfileOf(254), IccProfileOf(255)}

IccInit ==
  /\ dec = Decoder_new
  /\ loc = IdleLoc
  /\ res = NoResult
  /\ \E stream \in IccStreams :
       /\ ref = stream
       /\ hist = [InitHist EXCEPT !.budget = Len(stream) + 1]

IccAPP ==
  /\ hist.segments < Len(ref)
  /\ MarkerAPP(ref[hist.segments + 1])

IccEOI ==
  /\ hist.segments = Len(ref)
  /\ MarkerEOI

IccEof ==
  /\ hist.segments = Len(ref)
  /\ ReadMarkerEof

IccNext ==
  \/ Decode("SOI")
  \/ IccAPP
  \/ IccEOI
  \/ IccEof

SpecIcc == IccInit /\ [][IccNext]_vars

\* The chunks collected so far, their number, and what the claim asks of them.
IccCollected == dec.icc_markers
IccCount == Len(IccCollected)
IccEachOnce ==
  /\ \A s \in 1..IccCount :
       Cardinality({k \in 1..IccCount : IccCollected[k].seq_no = s}) = 1
  /\ \A k \in 1..IccCount : IccCollected[k].num_markers = IccCount
IccAscending ==
  LET at(s) == CHOOSE k \in 1..IccCount : IccCollected[k].seq_no = s
      RECURSIVE from(_, _)
      from(lo, hi) ==
        IF lo > hi THEN <<>>
        ELSE IF lo = hi THEN IccCollected[at(lo)].data
        ELSE from(lo, (lo + hi) \div 2) \o from((lo + hi) \div 2 + 1, hi)
  IN from(1, IccCount)

\* C9: icc_profile() is Some(d) iff the collected chunks carry each sequence
\* number 1..=N exactly once, N being the number of chunks and every chunk's
\* declared count; d is then the data in ascending sequence number.
C9_ProfileOfChunks ==
  IccCount >= 1 =>
    icc_profile(dec) = IF IccEachOnce THEN Some(IccAscending) ELSE None

\* The same for at most 254 chunks, and None for 255 and more: it holds.
C9_ProfileOfFewChunks ==
  IccCount >= 1 =>
    icc_profile(dec) = IF IccEachOnce /\ IccCount <= 254 THEN Some(IccAscending)
                       ELSE None

\* A reassembled profile whose chunks came out of order.
C9_ReassembledOutOfOrder ==
  /\ IccCount = MaxIccChunks
  /\ IccCollected[1].seq_no # 1
  /\ IsSome(icc_profile(dec))

(***************************************************************************)
(* huffman.rs: HuffmanDecoder.  bits is the bit buffer from its top bit    *)
(* down, as the sequence of its num_bits valid bits (the bits below them   *)
(* are zero).  What the reader holds next is a feed: the number of data    *)
(* bytes before an event, and the event: a marker, the end of the input,   *)
(* an FF 00 where a marker was expected, or none within the four bytes a   *)
(* refill can take.                                                        *)
(***************************************************************************)
HuffmanDecoder_new == [bits |-> <<>>, num_bits |-> 0, marker |-> None]

take_marker(h) == [huffman |-> [h EXCEPT !.marker = None], marker |-> h.marker]

reset_kept(h) == h
reset(h) == [h EXCEPT !.bits = <<>>, !.num_bits = 0]

DataByte == <<1, 0, 1, 0, 0, 1, 0, 1>>
ZeroByte == <<0, 0, 0, 0, 0, 0, 0, 0>>

consume_bits(h, count) ==
  [h EXCEPT !.bits = SubSeq(@, count + 1, Len(@)), !.num_bits = @ - count]

\* One pass of the loop of read_bits appends one byte; read counts the data
\* bytes taken from the feed.
RECURSIVE read_bits_from(_, _, _)
read_bits_from(h, feed, read) ==
  IF h.num_bits >= 25 THEN [huffman |-> h, ret |-> None]
  ELSE IF IsSome(h.marker)
    THEN read_bits_from([h EXCEPT !.bits = @ \o ZeroByte, !.num_bits = @ + 8], feed, read)
  ELSE IF read < feed.bytes
    THEN read_bits_from([h EXCEPT !.bits = @ \o DataByte, !.num_bits = @ + 8], feed,
                        read + 1)
  ELSE IF feed.event = "eof" THEN [huffman |-> h, ret |-> Some(Io)]
  ELSE IF feed.event = "stuffed"
    THEN [huffman |-> h, ret |-> Some(Format("FF 00 found where marker was expected"))]
  ELSE read_bits_from([h EXCEPT !.marker = Some(feed.marker)], feed, read)

read_bits(h, feed) == read_bits_from(h, feed, 0)

\* The value and the size are those of the table entry the top bits select.
decode(h, feed, code) ==
  LET filled == IF h.num_bits < 16 THEN read_bits(h, feed)
                ELSE [huffman |-> h, ret |-> None]
  IN IF IsSome(filled.ret) THEN [huffman |-> filled.huffman, ret |-> Unwrap(filled.ret)]
     ELSE [huffman |-> consume_bits(filled.huffman, code.size), ret |-> Ok(code.value)]

decode_fast_ac(h, feed, code) ==
  LET filled == IF h.num_bits < 8 THEN read_bits(h, feed)
                ELSE [huffman |-> h, ret |-> None]
  IN IF IsSome(filled.ret) THEN [huffman |-> filled.huffman, ret |-> Unwrap(filled.ret)]
     ELSE IF code.fast
       THEN [huffman |-> consume_bits(filled.huffman, code.size),
             ret |-> Ok(Some([value |-> code.value, run |-> code.run]))]
     ELSE [huffman |-> filled.huffman, ret |-> Ok(None)]

RECURSIVE BitsValue(_)
BitsValue(bits) ==
  IF bits = <<>> THEN 0 ELSE 2 * BitsValue(SubSeq(bits, 1, Len(bits) - 1)) + bits[Len(bits)]

receive(h, feed, count) ==
  LET filled == IF h.num_bits < count THEN read_bits(h, feed)
                ELSE [huffman |-> h, ret |-> None]
      value == BitsValue(SubSeq(filled.huffman.bits, 1, count))
  IN IF IsSome(filled.ret) THEN [huffman |-> filled.huffman, ret |-> Unwrap(filled.ret)]
     ELSE IF filled.huffman.num_bits < count
       THEN [huffman |-> filled.huffman,
             ret |-> Format("not enough bits in huffman receive")]
     ELSE [huffman |-> consume_bits(filled.huffman, count), ret |-> Ok(value)]

extend(value, count) ==
  IF value < 2 ^ (count - 1) THEN value - 2 ^ count + 1 ELSE value

receive_extend(h, feed, count) ==
  LET r == receive(h, feed, count)
  IN IF IsOk(r.ret) THEN [huffman |-> r.huffman, ret |-> Ok(extend(Val(r.ret), count))]
     ELSE r

(***************************************************************************)
(* decoder.rs: decode_block, for the scans of a progressive frame with     *)
(* Ah = 0 whose band is the DC coefficient or a single AC coefficient, so  *)
(* that the loop over the band runs at most once.  b is the scan's state   *)
(* the block works on; dc and ac are the table entries selected, feed and  *)
(* more what the reader holds at the first and at a later refill.          *)
(***************************************************************************)
wrapping_add(a, b) == ((a + b + 32768) % 65536) - 32768

Block(huffman, eob_run, dc_predictor, ret) ==
  [huffman |-> huffman, eob_run |-> eob_run, dc_predictor |-> dc_predictor, ret |-> ret]

decode_block_ac(b, spectral_selection, ac, feed, more) ==
  LET index == Max(spectral_selection.start, 1)
      fast == decode_fast_ac(b.huffman, feed, ac)
      slow == decode(fast.huffman, feed, ac)
      r == Val(slow.ret) \div 16
      s == Val(slow.ret) % 16
      run == receive(slow.huffman, more, r)
      coefficient == receive_extend(slow.huffman, more, s)
  IN IF index < spectral_selection.end /\ b.eob_run > 0
       THEN Block(b.huffman, b.eob_run - 1, b.dc_predictor, Ok(0))
     ELSE IF ~(index < spectral_selection.end) THEN b
     ELSE IF ~IsOk(fast.ret) THEN Block(fast.huffman, b.eob_run, b.dc_predictor, fast.ret)
     ELSE IF IsSome(Val(fast.ret))
       THEN Block(fast.huffman, b.eob_run, b.dc_predictor, Ok(0))
     ELSE IF ~IsOk(slow.ret) THEN Block(slow.huffman, b.eob_run, b.dc_predictor, slow.ret)
     ELSE IF s = 0 /\ r = 15 THEN Block(slow.huffman, b.eob_run, b.dc_predictor, Ok(0))
     ELSE IF s = 0 /\ r = 0 THEN Block(slow.huffman, 0, b.dc_predictor, Ok(0))
     ELSE IF s = 0 /\ ~IsOk(run.ret)
       THEN Block(run.huffman, 2 ^ r - 1, b.dc_predictor, run.ret)
     ELSE IF s = 0
       THEN Block(run.huffman, 2 ^ r - 1 + Val(run.ret), b.dc_predictor, Ok(0))
     ELSE IF index + r >= spectral_selection.end
       THEN Block(slow.huffman, b.eob_run, b.dc_predictor, Ok(0))
     ELSE IF ~IsOk(coefficient.ret)
       THEN Block(coefficient.huffman, b.eob_run, b.dc_predictor, coefficient.ret)
     ELSE Block(coefficient.huffman, b.eob_run, b.dc_predictor, Ok(0))

decode_block(b, spectral_selection, dc, ac, feed, more) ==
  LET value == decode(b.huffman, feed, dc)
      diff == IF Val(value.ret) = 0 THEN [huffman |-> value.huffman, ret |-> Ok(0)]
              ELSE receive_extend(value.huffman, more, Val(value.ret))
      predicted == Block(diff.huffman, b.eob_run,
                         wrapping_add(b.dc_predictor, Val(diff.ret)), Ok(0))
  IN IF spectral_selection.start # 0
       THEN decode_block_ac(b, spectral_selection, ac, feed, more)
     ELSE IF ~IsOk(value.ret)
       THEN Block(value.huffman, b.eob_run, b.dc_predictor, value.ret)
     ELSE IF Val(value.ret) > 11
       THEN Block(value.huffman, b.eob_run, b.dc_predictor,
                  Format("invalid DC difference magnitude category"))
     ELSE IF ~IsOk(diff.ret) THEN Block(diff.huffman, b.eob_run, b.dc_predictor, diff.ret)
     ELSE decode_block_ac(predicted, spectral_selection, ac, more, more)

(***************************************************************************)
(* decoder.rs: the MCU loop of decode_scan.  loc holds the locals of the   *)
(* scan: pc is "mcu" at the head of the loop, "blocks" within an MCU whose *)
(* restart handling is done, with i the component whose block is next, and *)
(* "done" when decode_scan has returned.  An MCU holds one block of every  *)
(* component of the scan.                                                  *)
(***************************************************************************)
ScanLocals(d) ==
  [pc |-> "mcu", mcu |-> 0, i |-> 1,
   huffman |-> HuffmanDecoder_new,
   dc_predictors |-> [c \in 1..MAX_COMPONENTS |-> 0],
   mcus_left_until_restart |-> d.restart_interval,
   expected_rst_num |-> 0,
   eob_run |-> 0]

ScanStep(l, ret, taken) == [loc |-> l, ret |-> ret, taken |-> taken]

restart_handling(d, l) ==
  LET took == take_marker(l.huffman)
      marker == took.marker
      taken == [l EXCEPT !.huffman = took.huffman, !.pc = "done"]
  IN IF d.restart_interval = 0 THEN ScanStep([l EXCEPT !.pc = "blocks"], None, None)
     ELSE IF l.mcus_left_until_restart # 0
       THEN ScanStep([l EXCEPT !.pc = "blocks", !.mcus_left_until_restart = @ - 1],
                     None, None)
     ELSE IF IsSome(marker) /\ Unwrap(marker).kind = "RST"
               /\ Unwrap(marker).n # l.expected_rst_num
       THEN ScanStep(taken, Some(Format("found RST where another RST was expected")),
                     Some(marker))
     ELSE IF IsSome(marker) /\ Unwrap(marker).kind = "RST"
       THEN ScanStep([l EXCEPT !.pc = "blocks",
                               !.huffman = reset(took.huffman),
                               !.dc_predictors = [c \in 1..MAX_COMPONENTS |-> 0],
                               !.eob_run = 0,
                               !.expected_rst_num = (@ + 1) % 8,
                               !.mcus_left_until_restart = d.restart_interval - 1],
                     None, Some(marker))
     ELSE IF IsSome(marker)
       THEN ScanStep(taken, Some(Format("found marker inside scan where RST was expected")),
                     Some(marker))
     ELSE ScanStep(taken, Some(Format("no marker found where RST was expected")),
                   Some(marker))

scan_block(l, scan, dc, ac, feed, more) ==
  LET b == decode_block(Block(l.huffman, l.eob_run, l.dc_predictors[l.i], Ok(0)),
                        scan.spectral_selection, dc, ac, feed, more)
      decoded == [l EXCEPT !.huffman = b.huffman, !.eob_run = b.eob_run,
                           !.dc_predictors[l.i] = b.dc_predictor]
  IN IF ~IsOk(b.ret) THEN ScanStep([decoded EXCEPT !.pc = "done"], Some(b.ret), None)
     ELSE IF l.i < scan.components
       THEN ScanStep([decoded EXCEPT !.i = @ + 1], None, None)
     ELSE ScanStep([decoded EXCEPT !.pc = "mcu", !.i = 1, !.mcu = @ + 1], None, None)

\* After the last MCU: the marker the Huffman decoder holds, or, if that is a
\* restart marker, the first other marker read_marker() makes out (next).
scan_end(l, next) ==
  LET took == take_marker(l.huffman)
      marker == IF IsSome(took.marker) /\ Unwrap(took.marker).kind = "RST"
                  THEN next ELSE took.marker
  IN ScanStep([l EXCEPT !.huffman = took.huffman, !.pc = "done"], Some(Ok(marker)), None)

(***************************************************************************)
(* One scan with restart intervals: the decoder has its restart interval   *)
(* from a DRI segment and enters the MCU loop of a scan of MaxMcus MCUs;   *)
(* the reader holds any entropy-coded data, markers and end.  hist.last    *)
(* names the last step, hist.taken what take_marker() returned to the      *)
(* restart handling of the current MCU, if it was called.                  *)
(***************************************************************************)
MaxMcus == 10
MaxInterval == 2

ScanMarkers == {Mk("RST", n) : n \in 0..7} \cup {EOI}

Feed(bytes, event, marker) == [bytes |-> bytes, event |-> event, marker |-> marker]
Refill == Feed(4, "none", EOI)
Feeds ==
  {Refill}
  \cup {Feed(k, e, EOI) : k \in 0..3, e \in {"eof", "stuffed"}}
  \cup {Feed(k, "marker", m) : k \in 0..3, m \in ScanMarkers}
LaterFeeds == {Refill, Feed(0, "eof", EOI)}
\* A refill takes nothing from the reader once a marker is held, and the
\* first operation of a block asks for none with 16 bits or more in the buffer.
FirstFeeds(h) == IF IsSome(h.marker) \/ h.num_bits >= 16 THEN {Refill} ELSE Feeds
MoreFeeds(h) == IF IsSome(h.marker) THEN {Refill} ELSE LaterFeeds

Code(fast, value, run, size) == [fast |-> fast, value |-> value, run |-> run, size |-> size]
NoCode == Code(FALSE, 0, 0, 1)
\* DC categories 0 and 1; the AC symbols EOB, EOB run 1 (r = 1, s = 0) and a
\* coefficient of one bit (r = 0, s = 1), and a hit of the fast AC table.
DcCodes == {Code(FALSE, 0, 0, 2), Code(FALSE, 1, 0, 3)}
AcCodes == {Code(FALSE, 0, 0, 2), Code(FALSE, 16, 0, 4), Code(FALSE, 1, 0, 3),
            Code(TRUE, 1, 0, 4)}

Scan(components, start, end) ==
  [components |-> components, spectral_selection |-> [start |-> start, end |-> end],
   mcus |-> MaxMcus]
Scans == {Scan(1, 0, 1), Scan(2, 0, 1), Scan(1, 1, 2)}

ScanInit ==
  /\ \E interval \in 0..MaxInterval :
       dec = [Decoder_new EXCEPT !.restart_interval = interval]
  /\ loc = ScanLocals(dec)
  /\ res = NoResult
  /\ hist = [last |-> "start", taken |-> None]
  /\ ref \in Scans

ScanApply(step, last) ==
  /\ loc' = step.loc
  /\ res' = IF IsSome(step.ret) THEN [op |-> "decode_scan", r |-> Unwrap(step.ret)]
            ELSE res
  /\ hist' = [last |-> last,
              taken |-> IF last = "restart" THEN step.taken ELSE hist.taken]
  /\ UNCHANGED <<dec, ref>>

ScanRestart ==
  /\ loc.pc = "mcu"
  /\ loc.mcu < ref.mcus
  /\ ScanApply(restart_handling(dec, loc), "restart")

ScanBlock(dc, ac, feed, more) ==
  /\ loc.pc = "blocks"
  /\ ScanApply(scan_block(loc, ref, dc, ac, feed, more), "block")

ScanEnd(next) ==
  /\ loc.pc = "mcu"
  /\ loc.mcu = ref.mcus
  /\ ScanApply(scan_end(loc, next), "end")

ScanNext ==
  \/ ScanRestart
  \/ \E dc \in (IF ref.spectral_selection.start = 0 THEN DcCodes ELSE {NoCode}),
        ac \in (IF ref.spectral_selection.start = 0 THEN {NoCode} ELSE AcCodes),
        feed \in FirstFeeds(loc.huffman), more \in MoreFeeds(loc.huffman) :
       ScanBlock(dc, ac, feed, more)
  \/ \E next \in {None, Some(EOI)} : ScanEnd(next)

SpecScan == ScanInit /\ [][ScanNext]_vars

\* MCU number loc.mcu is a multiple k * N of the restart interval, k >= 1, and
\* the marker asked for there.
RestartPoint ==
  /\ dec.restart_interval > 0
  /\ loc.mcu > 0
  /\ loc.mcu % dec.restart_interval = 0
RequiredRst == Mk("RST", ((loc.mcu \div dec.restart_interval) - 1) % 8)

\* C6: with a restart interval N > 0, the restart handling of MCU k * N takes
\* the marker and goes on to the MCU's blocks only if it is RST((k - 1) mod 8),
\* with all DC predictors 0, eob_run 0 and the bit buffer empty; with a wrong RST
\* number, another marker or none, decode_scan returns a Format error.  No block
\* of MCU k * N is decoded otherwise.
C6_RestartMarkers ==
  /\ (hist.last = "restart" /\ RestartPoint) =>
       IF hist.taken = Some(Some(RequiredRst))
         THEN /\ loc.pc = "blocks"
              /\ \A c \in 1..MAX_COMPONENTS : loc.dc_predictors[c] = 0
              /\ loc.eob_run = 0
              /\ loc.huffman.bits = <<>> /\ loc.huffman.num_bits = 0
         ELSE loc.pc = "done" /\ res.r.kind = "Format"
  /\ (loc.pc = "blocks" /\ RestartPoint) => hist.taken = Some(Some(RequiredRst))

\* The ninth restart of a scan with interval 1 has taken RST0 again.
C6_NinthRestart ==
  /\ hist.last = "restart"
  /\ dec.restart_interval = 1
  /\ loc.mcu = 9
  /\ hist.taken = Some(Some(Mk("RST", 0)))
  /\ loc.pc = "blocks"

(***************************************************************************)
(* idct.rs: choose_idct_size.  scaled works in u32: len * scale - 1        *)
(* underflows for a length of zero, which a build with overflow checks     *)
(* answers with a panic and a build without them by wrapping to 2^32 - 1,  *)
(* whose eighth plus one is 2^29 and is cut to 0 by the cast to u16.       *)
(***************************************************************************)
scaled(len, scale, overflow_checks) ==
  IF len * scale = 0
    THEN IF overflow_checks THEN Panic("attempt to subtract with overflow")
         ELSE Ok((536870911 + 1) % 65536)
  ELSE Ok((((len * scale - 1) \div 8) + 1) % 65536)

RECURSIVE choose_from(_, _, _, _)
choose_from(scales, full_size, requested_size, overflow_checks) ==
  IF scales = <<>> THEN Ok(8)
  ELSE LET scale == Head(scales)
           width == scaled(full_size.width, scale, overflow_checks)
           height == scaled(full_size.height, scale, overflow_checks)
       IN IF ~IsOk(width) THEN width
          ELSE IF Val(width) >= requested_size.width THEN Ok(scale)
          ELSE IF ~IsOk(height) THEN height
          ELSE IF Val(height) >= requested_size.height THEN Ok(scale)
          ELSE choose_from(Tail(scales), full_size, requested_size, overflow_checks)

choose_idct_size(full_size, requested_size, overflow_checks) ==
  choose_from(<<1, 2, 4>>, full_size, requested_size, overflow_checks)

(***************************************************************************)
(* parser.rs: FrameInfo::update_idct_size, which gives every component the *)
(* scale and the frame the output size of that scale.                      *)
(***************************************************************************)
update_idct_size(frame, idct_size) ==
  [frame EXCEPT
     !.components = [i \in 1..Len(frame.components) |->
                       [frame.components[i] EXCEPT !.dct_scale = idct_size]],
     !.output_size = Dimensions(CeilDiv(frame.image_size.width * idct_size, 8),
                                CeilDiv(frame.image_size.height * idct_size, 8))]

(***************************************************************************)
(* decoder.rs: Decoder::scale.  It runs read_info; s is the step that      *)
(* read_info has come to, and when that step makes read_info return Ok,    *)
(* scale goes on to choose the size and to update the frame.               *)
(***************************************************************************)
scale(s, requested_width, requested_height, overflow_checks) ==
  IF ~Returned(s) \/ ~IsOk(Unwrap(s.ret)) THEN s
  ELSE LET frame == Unwrap(s.dec.frame)
           idct_size == choose_idct_size(frame.image_size,
                          Dimensions(requested_width, requested_height),
                          overflow_checks)
           updated == update_idct_size(frame, Val(idct_size))
       IN IF ~IsOk(idct_size) THEN [s EXCEPT !.ret = Some(idct_size)]
          ELSE [s EXCEPT !.dec = [s.dec EXCEPT !.frame = Some(updated)],
                         !.ret = Some(Ok(<<updated.output_size.width,
                                           updated.output_size.height>>))]

(***************************************************************************)
(* Calls of scale on one decoder.  ref keeps the call's arguments and the  *)
(* build's overflow checks while its read_info reads markers.              *)
(***************************************************************************)
MaxScaleLen == 4
MaxScaleSegments == 2
u16_MAX == 65535

ScaleLengths == 0..MaxScaleLen \cup {u16_MAX}
ScaleSof ==
  {SofSegment(0, 8, h, w, <<1>>) : h \in ScaleLengths, w \in ScaleLengths}
  \cup {SofSegment(0, 8, h, MaxScaleLen, <<1, 2, 3>>) : h \in ScaleLengths}

ScaleInit ==
  /\ dec = Decoder_new
  /\ loc = IdleLoc
  /\ res = NoResult
  /\ hist = [InitHist EXCEPT !.budget = MaxScaleSegments]
  /\ ref = None

ScaleApply(s, marker, entry) ==
  LET call == IF entry THEN s ELSE scale(s, ref[1].width, ref[1].height, ref[1].checks)
  IN /\ dec' = call.dec
     /\ loc' = IF Returned(call) THEN IdleLoc
               ELSE IF entry THEN call.loc
               ELSE [call.loc EXCEPT !.previous_marker = marker]
     /\ res' = IF Returned(call) THEN [op |-> "scale", r |-> Unwrap(call.ret)]
               ELSE res
     /\ hist' = NextHist(hist, call, marker, entry)

Scale(first, requested_width, requested_height, overflow_checks) ==
  /\ loc.pc = "idle"
  /\ hist.calls < MaxCalls
  /\ ref' = Some([width |-> requested_width, height |-> requested_height,
                  checks |-> overflow_checks])
  /\ ScaleApply(scale(decode_internal_entry(dec, TRUE, first),
                      requested_width, requested_height, overflow_checks),
                SOI, TRUE)

ScaleSOF(t) ==
  /\ Reads(Mk("SOF", t.n))
  /\ ScaleApply(on_SOF(dec, Taken, t), Mk("SOF", t.n), FALSE)
  /\ UNCHANGED ref

ScaleDQT(t) ==
  /\ Reads(Mk("DQT", 0))
  /\ ScaleApply(on_DQT(dec, Taken, t), Mk("DQT", 0), FALSE)
  /\ UNCHANGED ref

ScaleEOI ==
  /\ Reads(EOI)
  /\ ScaleApply(on_EOI(dec, Taken), EOI, FALSE)
  /\ UNCHANGED ref

ScaleNext ==
  \/ \E w \in 0..(MaxScaleLen + 1) \cup {u16_MAX},
        h \in 0..(MaxScaleLen + 1) \cup {u16_MAX}, checks \in BOOLEAN :
       Scale("SOI", w, h, checks)
  \/ \E t \in ScaleSof : ScaleSOF(t)
  \/ ScaleDQT(DqtSegment(0))
  \/ ScaleEOI

SpecScale == ScaleInit /\ [][ScaleNext]_vars

\* The scale call that returned in the last step found or read a frame.
ScaleReturned == res.op = "scale" /\ hist.fresh /\ IsSome(dec.frame)
ScaleFrame == Unwrap(dec.frame)
ScaledSize(s) ==
  Dimensions(CeilDiv(ScaleFrame.image_size.width * s, 8),
             CeilDiv(ScaleFrame.image_size.height * s, 8))
ScaleMeets(s) ==
  \/ ScaledSize(s).width >= ref[1].width
  \/ ScaledSize(s).height >= ref[1].height
ScaleApplied(s) ==
  /\ IsOk(res.r)
  /\ \A i \in 1..Len(ScaleFrame.components) : ScaleFrame.components[i].dct_scale = s
  /\ ScaleFrame.output_size = ScaledSize(s)
  /\ Val(res.r) = <<ScaledSize(s).width, ScaledSize(s).height>>

\* C11: scale(rw, rh) selects the smallest scale s of 1, 2, 4, 8 whose
\* scaled image, ceil(width * s / 8) by ceil(height * s / 8), is at least
\* the requested size in one axis, gives every component that dct_scale and
\* returns the scaled size, which is the frame's new output size.
C11_SmallestScaleMeetingRequest ==
  ScaleReturned =>
    \E s \in {1, 2, 4, 8} :
      /\ ScaleMeets(s)
      /\ \A smaller \in {1, 2, 4, 8} : smaller < s => ~ScaleMeets(smaller)
      /\ ScaleApplied(s)

\* What holds of scale where it returns: the smallest of 1, 2, 4 that meets
\* the request, and 8 when none of them does.
C11_SmallestScaleOrFullSize ==
  (ScaleReturned /\ res.r.kind # "Panic") =>
    \E s \in {1, 2, 4, 8} :
      /\ s < 8 => ScaleMeets(s)
      /\ \A smaller \in {1, 2, 4} : smaller < s => ~ScaleMeets(smaller)
      /\ ScaleApplied(s)

\* A request larger than the image in both axes is answered by the full size.
C11_RequestLargerThanImage ==
  /\ ScaleReturned /\ IsOk(res.r)
  /\ ScaleFrame.image_size = Dimensions(1, 1)
  /\ ref[1].width = 2 /\ ref[1].height = 2
  /\ Val(res.r) = <<1, 1>>

\* A frame of height 0 under a build with overflow checks.
C11_ZeroHeightPanics ==
  /\ ScaleReturned /\ res.r.kind = "Panic"
  /\ ScaleFrame.image_size.height = 0

(***************************************************************************)
(* decoder.rs: Decoder::select_worker.  The product is taken in u64, which *)
(* holds the product of any two u16; u64_product_gt compares it with the   *)
(* threshold by a division, which stays within the checker's integers.     *)
(***************************************************************************)
PARALLELISM_THRESHOLD == 128 * 128

u64_product_gt(a, b, threshold) == b > 0 /\ a > threshold \div b

select_worker(frame, worker_preference) ==
  IF worker_preference = "Immediate" THEN "Immediate"
  ELSE LET width == frame.output_size.width
           height == frame.output_size.width
       IN IF u64_product_gt(width, height, PARALLELISM_THRESHOLD)
            THEN "Multithreaded"
          ELSE "Immediate"

(***************************************************************************)
(* The heuristic on the frames of all output sizes around the threshold.   *)
(***************************************************************************)
MaxSelectLen == 4

SelectLengths ==
  1..MaxSelectLen \cup {127, 128, 129, 4096, 4097, 16384, 16385, u16_MAX}

SelectInit ==
  /\ \E w \in SelectLengths, h \in SelectLengths :
       dec = [Decoder_new EXCEPT
                !.frame = Some(Val(parse_sof(SofSegment(0, 8, h, w, <<1>>))))]
  /\ loc = IdleLoc
  /\ res = NoResult
  /\ hist = InitHist
  /\ ref = None

SelectWorker(worker_preference) ==
  /\ res' = [op |-> "select_worker",
             r |-> Ok(select_worker(Unwrap(dec.frame), worker_preference))]
  /\ ref' = Some(worker_preference)
  /\ UNCHANGED <<dec, loc, hist>>

SelectNext == \E preference \in {"Immediate", "Multithreaded"} : SelectWorker(preference)

SpecSelect == SelectInit /\ [][SelectNext]_vars

SelectSize == Unwrap(dec.frame).output_size
\* width * height <= 128 * 128, for lengths of at least 1
SelectSmall == SelectSize.height <= PARALLELISM_THRESHOLD \div SelectSize.width

\* C12: for every output width and height in 1..=65535 the heuristic picks
\* the Immediate backend exactly when width * height <= 128 * 128 and the
\* multithreaded backend otherwise.
C12_ImmediateIffSmall ==
  (res.op = "select_worker" /\ ref = Some("Multithreaded")) =>
    Val(res.r) = (IF SelectSmall THEN "Immediate" ELSE "Multithreaded")

\* What the code computes: the square of the width stands for the area.
C12_ImmediateIffNarrow ==
  (res.op = "select_worker" /\ ref = Some("Multithreaded")) =>
    Val(res.r) = (IF SelectSize.width <= 128 THEN "Immediate" ELSE "Multithreaded")

\* An image of 1 x 65535 pixels is given to the Immediate backend.
C12_TallImageImmediate ==
  /\ res.op = "select_worker" /\ ref = Some("Multithreaded")
  /\ SelectSize = Dimensions(1, u16_MAX)
  /\ Val(res.r) = "Immediate"

(***************************************************************************)
(* worker/mod.rs: RowData, and the buffers of the workers.  A row of       *)
(* coefficients is known by its number; the samples that                   *)
(* dequantize_and_idct_block makes of one of its blocks are known by the   *)
(* scale, the table, the row, the block and their place (j, k) in the      *)
(* block.  A buffer is a sequence of samples, zero where none was written; *)
(* the offsets of the code count from 0, the sequences from 1.             *)
(***************************************************************************)
RowData(index, component, quantization_table) ==
  [index |-> index, component |-> component,
   quantization_table |-> quantization_table]

Sample(dct_scale, quantization_table, data, block, j, k) ==
  [dct_scale |-> dct_scale, table |-> quantization_table, data |-> data,
   block |-> block, j |-> j, k |-> k]

Components_default == [i \in 0..(MAX_COMPONENTS - 1) |-> None]
Results_default == [i \in 0..(MAX_COMPONENTS - 1) |-> <<>>]
Offsets_default == [i \in 0..(MAX_COMPONENTS - 1) |-> 0]

\* The sample 0u8 that a new buffer is filled with.
ZeroSample == Sample(0, 0, 0, 0, 0, 0)

\* The () of a call that returns no buffer, as an empty one.
Unit == <<>>

\* Vec::resize(new_len, 0)
resize(vec, new_len) ==
  [p \in 1..new_len |-> IF p <= Len(vec) THEN vec[p] ELSE ZeroSample]

\* The block written at output[0..], lines line_stride apart: whether it
\* fits, and the buffer with it.
block_fits(buffer, base, line_stride, dct_scale) ==
  base + (dct_scale - 1) * line_stride + dct_scale <= Len(buffer)

write_block(buffer, base, line_stride, dct_scale, quantization_table, data, block) ==
  [p \in 1..Len(buffer) |->
     LET at == p - 1 - base
         j == at \div line_stride
         k == at % line_stride
     IN IF at >= 0 /\ j < dct_scale /\ k < dct_scale
          THEN Sample(dct_scale, quantization_table, data, block, j, k)
        ELSE buffer[p]]

(***************************************************************************)
(* worker/immediate.rs: ImmediateWorker.                                   *)
(***************************************************************************)
ImmediateWorker_default ==
  [offsets |-> Offsets_default, results |-> Results_default,
   components |-> Components_default, quantization_tables |-> Components_default]

Done(w, ret) == [w |-> w, ret |-> ret]

immediate_start(w, data) ==
  IF w.results[data.index] # <<>>
    THEN Done(w, Panic("assertion failed: self.results[data.index].is_empty()"))
  ELSE Done([w EXCEPT
               !.offsets[data.index] = 0,
               !.results[data.index] = resize(@, start_immediate(data.component)),
               !.components[data.index] = Some(data.component),
               !.quantization_tables[data.index] = Some(data.quantization_table)],
            Ok(Unit))

RECURSIVE append_blocks_immediate(_, _, _, _, _)
append_blocks_immediate(w, index, data, i, block_count) ==
  LET component == Unwrap(w.components[index])
      quantization_table == Unwrap(w.quantization_tables[index])
      line_stride == component.block_size.width * component.dct_scale
      x == (i % component.block_size.width) * component.dct_scale
      y == (i \div component.block_size.width) * component.dct_scale
      base == w.offsets[index] + y * line_stride + x
  IN IF i = block_count
       THEN Done([w EXCEPT !.offsets[index] =
                    @ + block_count * component.dct_scale * component.dct_scale],
                 Ok(Unit))
     ELSE IF ~block_fits(w.results[index], base, line_stride, component.dct_scale)
       THEN Done(w, Panic("range start index out of range for slice"))
     ELSE append_blocks_immediate(
            [w EXCEPT !.results[index] =
               write_block(@, base, line_stride, component.dct_scale,
                           quantization_table, data, i)],
            index, data, i + 1, block_count)

append_row_immediate(w, index, data) ==
  IF IsNone(w.components[index])
    THEN Done(w, Panic("called Option::unwrap() on a None value"))
  ELSE LET component == Unwrap(w.components[index])
       IN append_blocks_immediate(w, index, data, 0,
            component.block_size.width * component.vertical_sampling_factor)

get_result_immediate(w, index) ==
  Done([w EXCEPT !.results[index] = <<>>], Ok(w.results[index]))

(***************************************************************************)
(* worker/rayon.rs: Scoped, whose inner worker keeps the buffers and whose *)
(* task queues keep the rows until they are drained.  A slice of a result  *)
(* buffer is the index of the buffer, where it starts (lo) and its length. *)
(***************************************************************************)
Scoped_default ==
  [inner |-> ImmediateWorker_default,
   task_queues |-> [i \in 0..(MAX_COMPONENTS - 1) |-> <<>>]]

start_immediate_scoped(inner, data) ==
  [inner EXCEPT
     !.offsets[data.index] = 0,
     !.results[data.index] = resize(@, start_immediate(data.component)),
     !.components[data.index] = Some(data.component),
     !.quantization_tables[data.index] = Some(data.quantization_table)]

component_metadata(inner, index) ==
  IF IsNone(inner.components[index]) THEN None
  ELSE LET component == Unwrap(inner.components[index])
       IN Some([block_width |-> component.block_size.width,
                block_count |-> component.block_size.width
                                  * component.vertical_sampling_factor,
                line_stride |-> component.block_size.width * component.dct_scale,
                dct_scale |-> component.dct_scale])

bytes_used(metadata) ==
  metadata.block_count * metadata.dct_scale * metadata.dct_scale

WorkItem(quantization_table, metadata, data) ==
  [quantization_table |-> quantization_table, metadata |-> metadata, data |-> data]

Scoped_start(w, data) ==
  Done([w EXCEPT !.inner = start_immediate_scoped(@, data)], Ok(Unit))

Scoped_append_row(w, index, data) ==
  IF IsNone(w.inner.quantization_tables[index]) \/ IsNone(w.inner.components[index])
    THEN Done(w, Panic("called Option::unwrap() on a None value"))
  ELSE Done([w EXCEPT !.task_queues[index] =
               Append(@, WorkItem(Unwrap(w.inner.quantization_tables[index]),
                                  Unwrap(component_metadata(w.inner, index)),
                                  data))],
            Ok(Unit))

Slice_from_start(index, lo, len) == [index |-> index, lo |-> 0, len |-> len]
Slice(index, lo, len) == [index |-> index, lo |-> lo, len |-> len]

\* res.get_mut(offset..).unwrap_or(&mut [])
result_block_from(inner, index) ==
  IF inner.offsets[index] <= Len(inner.results[index])
    THEN Slice(index, inner.offsets[index],
               Len(inner.results[index]) - inner.offsets[index])
  ELSE Slice(index, 0, 0)

\* The items of the queues from index on, each with the head of what is
\* left of its buffer; rest is the slice left for the index.
RECURSIVE drain_from(_, _, _, _)
drain_from(w, index, rest, work_items) ==
  IF index = MAX_COMPONENTS THEN [w |-> w, work_items |-> work_items, ret |-> Ok(Unit)]
  ELSE IF w.task_queues[index] = <<>>
    THEN (IF index + 1 = MAX_COMPONENTS
            THEN [w |-> w, work_items |-> work_items, ret |-> Ok(Unit)]
          ELSE drain_from(w, index + 1, result_block_from(w.inner, index + 1),
                          work_items))
  ELSE LET item == Head(w.task_queues[index])
           used == bytes_used(item.metadata)
           taken == [w EXCEPT !.task_queues[index] = Tail(@),
                              !.inner.offsets[index] = @ + used]
       IN IF used > rest.len
            THEN [w |-> [taken EXCEPT !.task_queues[index] = <<>>],
                  work_items |-> work_items,
                  ret |-> Panic("assertion failed: mid <= self.len()")]
          ELSE drain_from(taken, index,
                          Slice(index, rest.lo + used, rest.len - used),
                          Append(work_items,
                                 [item |-> item,
                                  result_block |-> Slice(index, rest.lo, used)]))

drain_nothing(w) == [w |-> w, work_items |-> <<>>, ret |-> Ok(Unit)]
drain_work_items(w) == drain_from(w, 0, result_block_from(w.inner, 0), <<>>)

\* append_row_locked at its block i: the buffer of the task's index with the
\* block written into the task's slice.
append_row_locked(buffer, work_item, i) ==
  LET metadata == work_item.item.metadata
      result_block == work_item.result_block
      x == (i % metadata.block_width) * metadata.dct_scale
      y == (i \div metadata.block_width) * metadata.dct_scale
      start == y * metadata.line_stride + x
      line(j) == start + j * metadata.line_stride
      lines == {j \in 0..(metadata.dct_scale - 1) : line(j) < result_block.len}
  IN IF start > result_block.len
       THEN Done(buffer, Panic("range start index out of range for slice"))
     ELSE IF \E j \in lines : result_block.len - line(j) < metadata.dct_scale
       THEN Done(buffer, Panic("range end index out of range for slice"))
     ELSE Done([p \in 1..Len(buffer) |->
                  LET at == p - 1 - result_block.lo - start
                      j == at \div metadata.line_stride
                      k == at % metadata.line_stride
                  IN IF at >= 0 /\ j \in lines /\ k < metadata.dct_scale
                       THEN Sample(metadata.dct_scale, work_item.item.quantization_table,
                                   work_item.item.data, i, j, k)
                     ELSE buffer[p]],
               Ok(Unit))

(***************************************************************************)
(* worker/multithreaded.rs: MpscWorker, which has one worker thread per    *)
(* component and sends it its messages, and create_worker, the loop of     *)
(* such a thread over an ImmediateWorker of its own.  A thread is spawned, *)
(* then running, then done; inbox is its channel and reply the channel     *)
(* that GetResult brings.                                                  *)
(***************************************************************************)
MpscWorker_default ==
  [senders |-> Components_default,
   threads |-> [i \in 0..(MAX_COMPONENTS - 1) |->
                  [state |-> "done", inbox |-> <<>>,
                   worker |-> ImmediateWorker_default, reply |-> None]]]

WorkerMsg(kind, data) == [kind |-> kind, data |-> data]

create_worker ==
  [state |-> "spawned", inbox |-> <<>>, worker |-> ImmediateWorker_default,
   reply |-> None]

\* sender.send(..).expect("jpeg-decoder worker thread error")
send(w, component, message) ==
  IF w.threads[component].state = "done"
    THEN Done(w, Panic("jpeg-decoder worker thread error"))
  ELSE Done([w EXCEPT !.threads[component].inbox = Append(@, message)], Ok(Unit))

start_with(w, row_data) ==
  LET component == row_data.index
      spawned == IF IsNone(w.senders[component])
                   THEN [w EXCEPT !.senders[component] = Some(component),
                                  !.threads[component] = create_worker]
                 ELSE w
  IN send(spawned, component, WorkerMsg("Start", row_data))

Mpsc_append_row(w, component, data) ==
  IF IsNone(w.senders[component])
    THEN Done(w, Panic("called Option::unwrap() on a None value"))
  ELSE send(w, component, WorkerMsg("AppendRow", data))

get_result_with(w, index) ==
  IF IsNone(w.senders[index])
    THEN Done(w, Panic("called Option::unwrap() on a None value"))
  ELSE send([w EXCEPT !.senders[index] = None], index, WorkerMsg("GetResult", index))

\* One turn of the loop of create_worker: the thread takes a message.  A
\* panic of its worker ends the thread and drops both channels.
worker_recv(thread) ==
  LET message == Head(thread.inbox)
      taken == [thread EXCEPT !.state = "running", !.inbox = Tail(@)]
      step == CASE message.kind = "Start" ->
                     immediate_start(thread.worker, [message.data EXCEPT !.index = 0])
                [] message.kind = "AppendRow" ->
                     append_row_immediate(thread.worker, 0, message.data)
                [] message.kind = "GetResult" ->
                     get_result_immediate(thread.worker, 0)
  IN IF ~IsOk(step.ret)
       THEN [taken EXCEPT !.state = "done", !.inbox = <<>>]
     ELSE IF message.kind = "GetResult"
       THEN [taken EXCEPT !.state = "done", !.inbox = <<>>, !.worker = step.w,
                          !.reply = Some(Val(step.ret))]
     ELSE [taken EXCEPT !.worker = step.w]

\* rx.recv().expect("jpeg-decoder worker thread error"), once it returns
collect_worker_thread(thread) ==
  IF IsSome(thread.reply) THEN Ok(Unwrap(thread.reply))
  ELSE Panic("jpeg-decoder worker thread error")

(***************************************************************************)
(* worker/mod.rs: the Worker trait over the backends.  Immediate is the    *)
(* ImmediateWorker of immediate.rs, Rayon the Scoped of rayon.rs,          *)
(* StdThread the StdThreadWorker and RayonFifo the jpeg_rayon::Scoped of   *)
(* multithreaded.rs, whose worker threads are tasks of a pool of its own.  *)
(***************************************************************************)
WorkerKinds == {"Immediate", "Rayon", "StdThread", "RayonFifo"}

Worker_default(kind) ==
  CASE kind = "Immediate" -> ImmediateWorker_default
    [] kind = "Rayon" -> Scoped_default
    [] OTHER -> MpscWorker_default

Worker_start(kind, w, row_data) ==
  CASE kind = "Immediate" -> immediate_start(w, row_data)
    [] kind = "Rayon" -> Scoped_start(w, row_data)
    [] OTHER -> start_with(w, row_data)

Worker_append_row(kind, w, index, data) ==
  CASE kind = "Immediate" -> append_row_immediate(w, index, data)
    [] kind = "Rayon" -> Scoped_append_row(w, index, data)
    [] OTHER -> Mpsc_append_row(w, index, data)

\* append_rows: append_row for every item of the iterator; Scoped pushes the
\* items on its queues as its append_row does.
RECURSIVE Worker_append_rows(_, _, _, _)
Worker_append_rows(kind, w, index, rows) ==
  IF rows = <<>> THEN Done(w, Ok(Unit))
  ELSE LET step == Worker_append_row(kind, w, index, Head(rows))
       IN IF ~IsOk(step.ret) THEN step
          ELSE Worker_append_rows(kind, step.w, index, Tail(rows))

\* The threads of the caller's pool that run the tasks the caller waits
\* for, at the end of par_drain(..).for_each and of in_place_scope_fifo: a
\* caller that is a thread of the pool takes part in its work.
scope_threads_blocking(pool) == IF pool.inside THEN pool.threads - 1 ELSE pool.threads
scope_threads(pool) == pool.threads

\* rayon::ThreadPoolBuilder::new().num_threads(4) of jpeg_rayon::enter
FIFO_THREADS == 4

spawn_capacity(kind) == IF kind = "RayonFifo" THEN FIFO_THREADS ELSE MAX_COMPONENTS

(***************************************************************************)
(* A worker under the calls the decoder makes of it: for every index       *)
(* start, then rows, then get_result, the indices in any order.  dec is    *)
(* the worker with the pool the caller runs in, loc the call in progress   *)
(* (the tasks of a drain, or the wait for a worker thread), hist the rows  *)
(* given to every index since its start, and ref an ImmediateWorker that   *)
(* is given the same calls.                                                *)
(***************************************************************************)
MaxWorkerCalls == 5
MaxLiveCalls == 3
\* No drain has more tasks than rows were appended.
MaxTasks == MaxWorkerCalls - 2
MaxThreads == 2

WorkerComponent(width, height, v, dct, tq) ==
  [block_size |-> Dimensions(width, height), vertical_sampling_factor |-> v,
   dct_scale |-> dct, quantization_table_index |-> tq]

WorkerComponents ==
  {WorkerComponent(1, 2, 1, 1, 0), WorkerComponent(2, 2, 1, 1, 1),
   WorkerComponent(2, 1, 1, 2, 0), WorkerComponent(1, 2, 2, 1, 1)}

\* Two of the MAX_COMPONENTS indices.
WorkerIndices == {0, 1}

McuRows(component) == component.block_size.height \div component.vertical_sampling_factor

WorkerIdle == [pc |-> "idle", index |-> 0, work_items |-> <<>>]

\* The pools decode may run in; the rayon backends have tasks in the
\* caller's pool.
Pools(kind) ==
  IF kind \in {"Rayon", "RayonFifo"}
    THEN {[threads |-> threads, inside |-> inside] :
            threads \in 1..MaxThreads, inside \in BOOLEAN}
  ELSE {[threads |-> 1, inside |-> FALSE]}

WorkerInitOf(budget) ==
  /\ \E kind \in WorkerKinds : \E pool \in Pools(kind) :
       dec = [kind |-> kind, worker |-> Worker_default(kind), pool |-> pool]
  /\ loc = WorkerIdle
  /\ res = NoResult
  /\ hist = [calls |-> 0, budget |-> budget, fresh |-> FALSE,
             started |-> [i \in WorkerIndices |-> None],
             rows |-> [i \in WorkerIndices |-> <<>>],
             last |-> None]
  /\ ref = [w |-> ImmediateWorker_default, plane |-> <<>>]

WorkerInit == WorkerInitOf(MaxWorkerCalls)
WorkerLiveInit == WorkerInitOf(MaxLiveCalls)

\* The state after a call that returned at once.
WorkerReturn(op, step) ==
  /\ dec' = [dec EXCEPT !.worker = step.w]
  /\ loc' = IF IsOk(step.ret) THEN WorkerIdle ELSE [WorkerIdle EXCEPT !.pc = "panicked"]
  /\ res' = [op |-> op, r |-> step.ret]

WorkerStart(index, component) ==
  LET row_data == RowData(index, component, component.quantization_table_index)
  IN /\ loc.pc = "idle"
     /\ hist.calls < hist.budget
     /\ IsNone(hist.started[index])
     /\ WorkerReturn("start", Worker_start(dec.kind, dec.worker, row_data))
     /\ hist' = [hist EXCEPT !.calls = @ + 1, !.fresh = FALSE,
                             !.started[index] = Some(row_data),
                             !.rows[index] = <<>>]
     /\ ref' = [ref EXCEPT !.w = immediate_start(@, row_data).w]

\* The rows of the call after hist.calls calls, n of them.
NewRows(n) == [k \in 1..n |-> (hist.calls + 1) * 10 + k]

WorkerAppendRow(index) ==
  /\ loc.pc = "idle"
  /\ hist.calls < hist.budget
  /\ IsSome(hist.started[index])
  /\ Len(hist.rows[index]) < McuRows(Unwrap(hist.started[index]).component)
  /\ WorkerReturn("append_row",
                  Worker_append_row(dec.kind, dec.worker, index, NewRows(1)[1]))
  /\ hist' = [hist EXCEPT !.calls = @ + 1, !.fresh = FALSE,
                          !.rows[index] = @ \o NewRows(1)]
  /\ ref' = [ref EXCEPT !.w = append_row_immediate(@, index, NewRows(1)[1]).w]

WorkerAppendRows(index, n) ==
  /\ loc.pc = "idle"
  /\ hist.calls < hist.budget
  /\ IsSome(hist.started[index])
  /\ Len(hist.rows[index]) + n <= McuRows(Unwrap(hist.started[index]).component)
  /\ WorkerReturn("append_rows",
                  Worker_append_rows(dec.kind, dec.worker, index, NewRows(n)))
  /\ hist' = [hist EXCEPT !.calls = @ + 1, !.fresh = FALSE,
                          !.rows[index] = @ \o NewRows(n)]
  /\ ref' = [ref EXCEPT !.w = Worker_append_rows("Immediate", @, index, NewRows(n)).w]

\* What get_result(index) was called with: the rows since the start.
Called(index) ==
  [hist EXCEPT !.calls = @ + 1, !.fresh = FALSE,
               !.started[index] = None, !.rows[index] = <<>>,
               !.last = Some([index |-> index, row_data |-> Unwrap(hist.started[index]),
                              rows |-> hist.rows[index]])]

RefResult(index) ==
  LET step == get_result_immediate(ref.w, index)
  IN [w |-> step.w, plane |-> Val(step.ret)]

WorkerGetResult(index) ==
  /\ loc.pc = "idle"
  /\ hist.calls < hist.budget
  /\ IsSome(hist.started[index])
  /\ ref' = RefResult(index)
  /\ CASE dec.kind = "Immediate" ->
            /\ WorkerReturn("get_result", get_result_immediate(dec.worker, index))
            /\ hist' = [Called(index) EXCEPT !.fresh = TRUE]
       [] dec.kind = "Rayon" ->
            LET drain == drain_work_items(dec.worker)
            IN IF ~IsOk(drain.ret)
                 THEN /\ WorkerReturn("get_result", Done(drain.w, drain.ret))
                      /\ hist' = Called(index)
               ELSE /\ dec' = [dec EXCEPT !.worker = drain.w]
                    /\ loc' = [pc |-> "drain", index |-> index,
                               work_items |->
                                 [t \in 1..Len(drain.work_items) |->
                                    [item |-> drain.work_items[t].item,
                                     result_block |-> drain.work_items[t].result_block,
                                     next |-> 0]]]
                    /\ hist' = Called(index)
                    /\ UNCHANGED res
       [] OTHER ->
            LET sent == get_result_with(dec.worker, index)
            IN IF ~IsOk(sent.ret)
                 THEN /\ WorkerReturn("get_result", sent)
                      /\ hist' = Called(index)
               ELSE /\ dec' = [dec EXCEPT !.worker = sent.w]
                    /\ loc' = [pc |-> "collect", index |-> index, work_items |-> <<>>]
                    /\ hist' = Called(index)
                    /\ UNCHANGED res

\* Scoped::get_result after drain_task_queues
Scoped_take(w, index) ==
  LET step == get_result_immediate(w.inner, index)
  IN Done([w EXCEPT !.inner = step.w], step.ret)

\* A task of the drain in progress runs append_row_locked for its next
\* block, on a thread of the pool; a task that has begun keeps its thread.
TaskBlocks(t) == loc.work_items[t].item.metadata.block_count
TaskRuns(t) == 0 < loc.work_items[t].next /\ loc.work_items[t].next < TaskBlocks(t)

TaskBlock(t) ==
  LET work_item == loc.work_items[t]
      index == work_item.result_block.index
      step == append_row_locked(dec.worker.inner.results[index], work_item,
                                work_item.next)
  IN /\ loc.pc = "drain"
     /\ t \in 1..Len(loc.work_items)
     /\ work_item.next < TaskBlocks(t)
     /\ \/ TaskRuns(t)
        \/ Cardinality({u \in 1..Len(loc.work_items) : TaskRuns(u)})
             < scope_threads(dec.pool)
     /\ dec' = [dec EXCEPT !.worker.inner.results[index] = step.w]
     /\ IF IsOk(step.ret)
          THEN /\ loc' = [loc EXCEPT !.work_items[t].next = @ + 1]
               /\ UNCHANGED res
        ELSE /\ loc' = [WorkerIdle EXCEPT !.pc = "panicked"]
             /\ res' = [op |-> "get_result", r |-> step.ret]
     /\ hist' = [hist EXCEPT !.fresh = FALSE]
     /\ UNCHANGED ref

\* for_each has run every task: get_result hands the buffer over.
DrainReturn ==
  /\ loc.pc = "drain"
  /\ \A t \in 1..Len(loc.work_items) : loc.work_items[t].next = TaskBlocks(t)
  /\ WorkerReturn("get_result", Scoped_take(dec.worker, loc.index))
  /\ hist' = [hist EXCEPT !.fresh = TRUE]
  /\ UNCHANGED ref

\* A worker thread takes its next message; a thread that has not begun
\* needs a thread of the pool its task was spawned in.
ThreadRecv(component) ==
  LET thread == dec.worker.threads[component]
  IN /\ dec.kind \in {"StdThread", "RayonFifo"}
     /\ thread.state # "done"
     /\ thread.inbox # <<>>
     /\ \/ thread.state = "running"
        \/ Cardinality({c \in 0..(MAX_COMPONENTS - 1) :
                          dec.worker.threads[c].state = "running"})
             < spawn_capacity(dec.kind)
     /\ dec' = [dec EXCEPT !.worker.threads[component] = worker_recv(thread)]
     /\ hist' = [hist EXCEPT !.fresh = FALSE]
     /\ UNCHANGED <<loc, res, ref>>

\* The wait of get_result ends when the thread has answered or is gone.
CollectReturn ==
  LET thread == dec.worker.threads[loc.index]
  IN /\ loc.pc = "collect"
     /\ thread.state = "done"
     /\ dec.kind = "RayonFifo" => scope_threads(dec.pool) > 0
     /\ WorkerReturn("get_result", Done(dec.worker, collect_worker_thread(thread)))
     /\ hist' = [hist EXCEPT !.fresh = TRUE]
     /\ UNCHANGED ref

WorkerNext ==
  \/ \E index \in WorkerIndices, component \in WorkerComponents :
       WorkerStart(index, component)
  \/ \E index \in WorkerIndices : WorkerAppendRow(index)
  \/ \E index \in WorkerIndices, n \in 2..2 : WorkerAppendRows(index, n)
  \/ \E index \in WorkerIndices : WorkerGetResult(index)
  \/ \E t \in 1..MaxTasks : TaskBlock(t)
  \/ DrainReturn
  \/ \E component \in WorkerIndices : ThreadRecv(component)
  \/ CollectReturn

SpecWorker == WorkerInit /\ [][WorkerNext]_vars

\* The calls are the caller's to make or not; tasks and threads, once
\* there, run, and a call whose wait is over returns.
WorkerFair ==
  /\ \A t \in 1..MaxTasks : WF_vars(TaskBlock(t))
  /\ WF_vars(DrainReturn)
  /\ \A component \in WorkerIndices : WF_vars(ThreadRecv(component))
  /\ WF_vars(CollectReturn)

SpecWorkerLive == WorkerLiveInit /\ [][WorkerNext]_vars /\ WorkerFair

\* The get_result call that returned in the last step, and the buffer a
\* component's rows make: the rows follow each other, each the lines of its
\* blocks, the blocks of a line side by side.
GotResult == res.op = "get_result" /\ hist.fresh
Got == Unwrap(hist.last)

PlaneOfRows(row_data, rows) ==
  LET component == row_data.component
      dct == component.dct_scale
      line_stride == component.block_size.width * dct
      row_size == line_stride * component.vertical_sampling_factor * dct
  IN [p \in 1..start_immediate(component) |->
        LET row == (p - 1) \div row_size
            line == ((p - 1) % row_size) \div line_stride
            column == (p - 1) % line_stride
        IN IF row < Len(rows)
             THEN Sample(dct, row_data.quantization_table, rows[row + 1],
                         (line \div dct) * component.block_size.width + column \div dct,
                         line % dct, column % dct)
           ELSE ZeroSample]

\* Nothing of the index is left to do where get_result has returned.
NothingPending(index) ==
  CASE dec.kind = "Immediate" -> TRUE
    [] dec.kind = "Rayon" -> dec.worker.task_queues[index] = <<>> /\ loc.work_items = <<>>
    [] OTHER -> dec.worker.threads[index].state = "done"

\* C13: for every backend, get_result(index) returns only after every row
\* given to append_row or append_rows for the index since its start has been
\* dequantized and transformed, and the buffer it returns holds the samples
\* of all these rows in the order of the MCU rows.
C13_ResultHoldsEveryRow ==
  GotResult =>
    /\ IsOk(res.r)
    /\ Val(res.r) = PlaneOfRows(Got.row_data, Got.rows)
    /\ NothingPending(Got.index)

\* A worker thread has returned the buffer of two rows.
C13_TwoRowsFromThread ==
  /\ GotResult /\ IsOk(res.r)
  /\ dec.kind = "StdThread"
  /\ Len(Got.rows) = 2
  /\ \A p \in 1..Len(Val(res.r)) : Val(res.r)[p] # ZeroSample

\* The rows given to an index since its start, also while its get_result
\* is draining.
RowsSinceStart(index) ==
  IF loc.pc = "drain" /\ loc.index = index THEN Got.rows ELSE hist.rows[index]

Position(rows, data) == CHOOSE k \in 1..Len(rows) : rows[k] = data

SliceOf(t) == loc.work_items[t].result_block
Disjoint(a, b) ==
  a.index # b.index \/ a.lo + a.len <= b.lo \/ b.lo + b.len <= a.lo

\* C14: in the parallel backend the tasks of a drain write to slices of the
\* result buffers that are disjoint in pairs, each where the place of its
\* row in the order of the appends puts it, so get_result returns the same
\* buffers under every order and interleaving of the tasks, and they are
\* those of the immediate backend.
C14_DisjointSlicesSamePlanes ==
  /\ (dec.kind = "Rayon" /\ loc.pc = "drain") =>
       \A t \in 1..Len(loc.work_items) :
         /\ \A u \in 1..Len(loc.work_items) : t # u => Disjoint(SliceOf(t), SliceOf(u))
         /\ SliceOf(t).len = bytes_used(loc.work_items[t].item.metadata)
         /\ SliceOf(t).lo =
              SliceOf(t).len * (Position(RowsSinceStart(SliceOf(t).index),
                                         loc.work_items[t].item.data) - 1)
  /\ (dec.kind = "Rayon" /\ GotResult) =>
       /\ IsOk(res.r)
       /\ Val(res.r) = ref.plane
       /\ Val(res.r) = PlaneOfRows(Got.row_data, Got.rows)

\* Two tasks of one component are both in the middle of their rows.
C14_TwoTasksAtOnce ==
  /\ dec.kind = "Rayon" /\ loc.pc = "drain"
  /\ \E t, u \in 1..Len(loc.work_items) :
       /\ t # u /\ SliceOf(t).index = SliceOf(u).index
       /\ TaskRuns(t) /\ TaskRuns(u)

\* C15: every get_result call returns in the end, also when decode runs in
\* a rayon pool of a single thread.
C15_GetResultReturns ==
  (loc.pc \in {"drain", "collect"}) ~> (loc.pc = "idle" /\ res.op = "get_result")

\* A drain of two tasks in a pool of one thread, which is the caller's.
C15_DrainInPoolOfOne ==
  /\ dec.kind = "Rayon" /\ dec.pool = [threads |-> 1, inside |-> TRUE]
  /\ GotResult /\ IsOk(res.r)
  /\ Len(Got.rows) = 2


(***************************************************************************)
(* The lossless scan (decoder/lossless.rs): the differences of all pixels  *)
(* are decoded first, restart markers included, and the samples are        *)
(* reconstructed from the predictions afterwards.                          *)
(***************************************************************************)
i32_MIN == -2147483647 - 1

\* a - b of two u8 values
sub_u8(a, b, overflow_checks) ==
  IF a >= b THEN Ok(a - b)
  ELSE IF overflow_checks THEN Panic("attempt to subtract with overflow")
  ELSE Ok(a - b + 256)

\* 1 << e of an i32
shl_one_i32(e, overflow_checks) ==
  IF e >= 32 /\ overflow_checks THEN Panic("attempt to shift left with overflow")
  ELSE IF e % 32 = 31 THEN Ok(i32_MIN)
  ELSE Ok(2 ^ (e % 32))

\* ((prediction + diff) & 0xFFFF) as u16, then << point_transform on the u16
reconstruct(prediction, diff, point_transform) ==
  ((((prediction % 65536) + (diff % 65536)) % 65536) * (2 ^ point_transform)) % 65536

predict(ra, rb, rc, predictor, point_transform, input_precision, ix, iy, restart) ==
  IF (ix = 0 /\ iy = 0) \/ restart
    THEN IF input_precision > 1 + point_transform
           THEN 2 ^ (input_precision - point_transform - 1)
         ELSE 0
  ELSE IF iy = 0 THEN ra
  ELSE IF ix = 0 THEN rb
  ELSE CASE predictor = 0 -> 0
         [] predictor = 1 -> ra
         [] predictor = 2 -> rb
         [] predictor = 3 -> rc
         [] predictor = 4 -> ra + rb - rc
         [] predictor = 5 -> ra + ((rb - rc) \div 2)
         [] predictor = 6 -> rb + ((ra - rc) \div 2)
         [] predictor = 7 -> (ra + rb) \div 2

\* The prediction of the top left pixel when the predictor is Ra.
top_left_prediction(precision, point_transform, overflow_checks) ==
  LET d == sub_u8(precision, point_transform, overflow_checks)
      e == sub_u8(Val(d), 1, overflow_checks)
  IN IF ~IsOk(d) THEN d
     ELSE IF ~IsOk(e) THEN e
     ELSE shl_one_i32(Val(e), overflow_checks)

MaxLosslessWidth == 3
MaxLosslessHeight == 2
MaxLosslessInterval == 3
LosslessPrecisions == {2, 3}
LosslessTransforms == 0..2
LosslessDiffs == {-1, 1}

\* The pixels in the order the Ra branch computes them: the top left one,
\* the leftmost column, then the rows.
RaOrder(width, height) ==
  LET column == [y \in 1..(height - 1) |-> y * width]
      RECURSIVE rows(_)
      rows(y) == IF y = height THEN <<>>
                 ELSE [x \in 1..(width - 1) |-> y * width + x] \o rows(y + 1)
  IN <<0>> \o column \o rows(0)

LosslessInit ==
  /\ \E width \in 1..MaxLosslessWidth, height \in 1..MaxLosslessHeight,
        precision \in LosslessPrecisions, point_transform \in LosslessTransforms,
        predictor_selection \in 1..7, restart_interval \in 0..MaxLosslessInterval,
        overflow_checks \in BOOLEAN :
       dec = [frame |-> [precision |-> precision,
                         image_size |-> Dimensions(width, height)],
              scan |-> [predictor_selection |-> predictor_selection,
                        point_transform |-> point_transform],
              restart_interval |-> restart_interval,
              overflow_checks |-> overflow_checks]
  /\ loc = [pc |-> "differences",
            mcus_left_until_restart |-> dec.restart_interval,
            expected_rst_num |-> 0,
            differences |-> <<>>,
            results |-> [p \in 1..(dec.frame.image_size.width * dec.frame.image_size.height) |-> 0],
            ra |-> 0, rb |-> 0, rc |-> 0,
            done |-> 0]
  /\ res = NoResult
  /\ hist = [restarts |-> {}, predictions |-> <<>>, pixels |-> <<>>]
  /\ ref = None

LosslessWidth == dec.frame.image_size.width
LosslessHeight == dec.frame.image_size.height
LosslessPixels == LosslessWidth * LosslessHeight

LosslessFail(r) ==
  /\ loc' = [loc EXCEPT !.pc = "returned"]
  /\ res' = [op |-> "decode_scan_lossless", r |-> r]
  /\ UNCHANGED <<dec, hist, ref>>

\* One pixel of the first loop: the restart marker when one is due (marker
\* is what take_marker finds: the number of an RST marker, or 8 for anything
\* else), then the difference.
LosslessDifference(marker, diff) ==
  /\ loc.pc = "differences"
  /\ LET due == dec.restart_interval > 0 /\ loc.mcus_left_until_restart = 0
         left == IF dec.restart_interval = 0 THEN loc.mcus_left_until_restart
                 ELSE IF due THEN dec.restart_interval - 1
                 ELSE loc.mcus_left_until_restart - 1
         pixel == Len(loc.differences)
     IN IF due /\ marker # loc.expected_rst_num
          THEN LosslessFail(Format("RST expected"))
        ELSE /\ loc' = [loc EXCEPT
                          !.mcus_left_until_restart = left,
                          !.expected_rst_num = IF due THEN (@ + 1) % 8 ELSE @,
                          !.differences = Append(@, diff),
                          !.pc = IF pixel + 1 = LosslessPixels THEN "predict" ELSE @]
             /\ hist' = [hist EXCEPT !.restarts = IF due THEN @ \cup {pixel} ELSE @]
             /\ UNCHANGED <<dec, res, ref>>

LosslessStore(pixel, prediction, ra, rb, rc) ==
  /\ loc' = [loc EXCEPT
               !.results[pixel + 1] =
                  reconstruct(prediction, loc.differences[pixel + 1], dec.scan.point_transform),
               !.ra = ra, !.rb = rb, !.rc = rc,
               !.done = @ + 1,
               !.pc = IF loc.done + 1 = LosslessPixels THEN "computed" ELSE @]
  /\ hist' = [hist EXCEPT !.predictions = Append(@, prediction),
                          !.pixels = Append(@, pixel)]
  /\ UNCHANGED <<dec, res, ref>>

\* One pixel of the branch of the predictor Ra.
LosslessPredictRa ==
  /\ loc.pc = "predict"
  /\ dec.scan.predictor_selection = 1
  /\ LET pixel == RaOrder(LosslessWidth, LosslessHeight)[loc.done + 1]
         first == top_left_prediction(dec.frame.precision, dec.scan.point_transform,
                                      dec.overflow_checks)
     IN IF pixel = 0
          THEN IF IsOk(first)
                 THEN LosslessStore(pixel, Val(first), loc.ra, loc.rb, loc.rc)
               ELSE LosslessFail(first)
        ELSE IF pixel % LosslessWidth = 0
          THEN LosslessStore(pixel, loc.results[pixel - LosslessWidth + 1],
                             loc.ra, loc.rb, loc.rc)
        ELSE LosslessStore(pixel, loc.results[pixel], loc.ra, loc.rb, loc.rc)

\* One pixel of the branch of the other predictors.
LosslessPredict ==
  /\ loc.pc = "predict"
  /\ dec.scan.predictor_selection # 1
  /\ LET pixel == loc.done
         mcu_x == pixel % LosslessWidth
         mcu_y == pixel \div LosslessWidth
         ra == IF mcu_x > 0 THEN loc.results[pixel] ELSE loc.ra
         rb == IF mcu_y > 0 THEN loc.results[pixel - LosslessWidth + 1] ELSE loc.rb
         rc == IF mcu_y > 0 /\ mcu_x > 0 THEN loc.results[pixel - LosslessWidth] ELSE loc.rc
         restart == /\ dec.restart_interval > 0
                    /\ loc.mcus_left_until_restart = dec.restart_interval - 1
     IN LosslessStore(pixel,
                      predict(ra, rb, rc, dec.scan.predictor_selection,
                              dec.scan.point_transform, dec.frame.precision,
                              mcu_x, mcu_y, restart),
                      ra, rb, rc)

LosslessReturn ==
  /\ loc.pc = "computed"
  /\ loc' = [loc EXCEPT !.pc = "returned"]
  /\ res' = [op |-> "decode_scan_lossless", r |-> Ok(loc.results)]
  /\ UNCHANGED <<dec, hist, ref>>

LosslessNext ==
  \/ \E marker \in 0..8, diff \in LosslessDiffs : LosslessDifference(marker, diff)
  \/ LosslessPredictRa
  \/ LosslessPredict
  \/ LosslessReturn

SpecLossless == LosslessInit /\ [][LosslessNext]_vars

\* The prediction the claim gives to the pixel, from the samples of its
\* neighbours A (left), B (above) and C (above left).
StartPrediction ==
  IF dec.frame.precision > dec.scan.point_transform + 1
    THEN 2 ^ (dec.frame.precision - dec.scan.point_transform - 1)
  ELSE 0

NeighbourPrediction(pixel) ==
  LET ix == pixel % LosslessWidth
      iy == pixel \div LosslessWidth
      A == loc.results[pixel]
      B == loc.results[pixel - LosslessWidth + 1]
      C == loc.results[pixel - LosslessWidth]
  IN IF iy = 0 THEN A
     ELSE IF ix = 0 THEN B
     ELSE CASE dec.scan.predictor_selection = 1 -> A
            [] dec.scan.predictor_selection = 2 -> B
            [] dec.scan.predictor_selection = 3 -> C
            [] dec.scan.predictor_selection = 4 -> A + B - C
            [] dec.scan.predictor_selection = 5 -> A + ((B - C) \div 2)
            [] dec.scan.predictor_selection = 6 -> B + ((A - C) \div 2)
            [] dec.scan.predictor_selection = 7 -> (A + B) \div 2

ExpectedPrediction(pixel) ==
  IF pixel = 0 \/ pixel \in hist.restarts THEN StartPrediction
  ELSE NeighbourPrediction(pixel)

LosslessPanicked == res.op = "decode_scan_lossless" /\ res.r.kind = "Panic"

\* C16: in a lossless scan with a predictor selection of 1..=7 the first
\* pixel of the scan and the first pixel after each restart marker are
\* predicted by 1 << (precision - point_transform - 1) when precision >
\* point_transform + 1 and by 0 otherwise, and every other pixel by its
\* neighbours: A on the first row, B on the first column, the selected
\* predictor elsewhere.
C16_StartPredictionAtRestarts ==
  /\ ~LosslessPanicked
  /\ \A k \in 1..Len(hist.predictions) :
       hist.predictions[k] = ExpectedPrediction(hist.pixels[k])

\* What holds of the code: without restart markers, and with a precision
\* above point_transform + 1, the pixels are predicted as the claim says.
C16_WithoutRestarts ==
  (dec.restart_interval = 0 /\ dec.frame.precision > dec.scan.point_transform + 1) =>
    C16_StartPredictionAtRestarts

\* The pixel after a restart marker is predicted from its neighbour.
C16_NeighbourAfterRestart ==
  \E k \in 1..Len(hist.predictions) :
    /\ hist.pixels[k] \in hist.restarts
    /\ hist.predictions[k] # StartPrediction
    /\ hist.predictions[k] = NeighbourPrediction(hist.pixels[k])

\* A pixel that follows no restart marker is given the start prediction.
C16_StartPredictionEverywhere ==
  /\ dec.scan.predictor_selection # 1
  /\ \E k \in 1..Len(hist.predictions) :
       /\ hist.pixels[k] # 0 /\ hist.pixels[k] \notin hist.restarts
       /\ hist.predictions[k] = StartPrediction
       /\ hist.predictions[k] # NeighbourPrediction(hist.pixels[k])

\* The Ra branch predicts the top left pixel by 1 where the claim says 0.
C16_TopLeftWithoutHeadroom ==
  /\ dec.scan.predictor_selection = 1
  /\ dec.frame.precision = dec.scan.point_transform + 1
  /\ Len(hist.predictions) >= 1
  /\ hist.predictions[1] = 1


(***************************************************************************)
(* huffman.rs: the tables.  A table is built from the sixteen code counts  *)
(* (bits, indexed by the code length less one) and the values, one per     *)
(* code.  The codes are u16 and the decoder's reader is a sequence of      *)
(* bytes in which FF 00 stands for the data byte FF.  fast_ac, which       *)
(* decode does not read, is left out of the table.                         *)
(***************************************************************************)
LUT_BITS == 8

RECURSIVE BitsOf(_, _)
BitsOf(value, n) ==
  IF n = 0 THEN <<>> ELSE Append(BitsOf(value \div 2, n - 1), value % 2)

\* Figure C.1: the length of every code, in the order of the lengths
RECURSIVE huffsize_from(_, _)
huffsize_from(bits, i) ==
  IF i = 16 THEN <<>>
  ELSE [k \in 1..bits[i] |-> i + 1] \o huffsize_from(bits, i + 1)

\* Figure C.2, from the i-th code on
RECURSIVE huffcode_from(_, _, _, _, _, _)
huffcode_from(huffsize, i, code, size, huffcode, overflow_checks) ==
  IF i > Len(huffsize) THEN Ok([huffcode |-> huffcode, huffsize |-> huffsize])
  ELSE LET v == huffsize[i]
           shifted == (code * 2 ^ (v - size)) % 65536
       IN IF shifted >= 2 ^ v THEN Format("bad huffman code length")
          ELSE IF shifted = 65535 /\ overflow_checks
            THEN Panic("attempt to add with overflow")
          ELSE huffcode_from(huffsize, i + 1, (shifted + 1) % 65536, v,
                             Append(huffcode, shifted), overflow_checks)

derive_huffman_codes(bits, overflow_checks) ==
  LET huffsize == huffsize_from(bits, 0)
      size == IF huffsize = <<>> THEN 0 ELSE huffsize[1]
  IN huffcode_from(huffsize, 1, 0, size, <<>>, overflow_checks)

\* the number of codes shorter than i + 1 bits
RECURSIVE codes_before(_, _)
codes_before(bits, i) == IF i = 0 THEN 0 ELSE codes_before(bits, i - 1) + bits[i - 1]

\* lut[index]: the last of the codes of up to LUT_BITS bits written there
lut_entry(huffcode, huffsize, values, index) ==
  LET start(i) == huffcode[i] * 2 ^ (LUT_BITS - huffsize[i])
      written == {i \in 1..Len(values) :
                    /\ huffsize[i] <= LUT_BITS
                    /\ start(i) <= index
                    /\ index < start(i) + 2 ^ (LUT_BITS - huffsize[i])}
  IN IF written = {} THEN <<0, 0>>
     ELSE <<values[MaxOf(written)], huffsize[MaxOf(written)]>>

HuffmanTable_new(bits, values, overflow_checks) ==
  LET derived == derive_huffman_codes(bits, overflow_checks)
      huffcode == Val(derived).huffcode
      huffsize == Val(derived).huffsize
      j(i) == codes_before(bits, i)
  IN IF ~IsOk(derived) THEN derived
     ELSE Ok([values |-> values,
              value_offset |-> [i \in 0..15 |->
                                  IF bits[i] # 0 THEN j(i) - huffcode[j(i) + 1] ELSE 0],
              maxcode |-> [i \in 0..15 |->
                             IF bits[i] # 0 THEN huffcode[j(i) + bits[i]] ELSE -1],
              lut |-> [index \in 0..(2 ^ LUT_BITS - 1) |->
                         lut_entry(huffcode, huffsize, values, index)]])

\* read_bits on a reader of bytes
RECURSIVE read_bytes(_, _)
read_bytes(h, reader) ==
  IF h.num_bits >= 25 THEN [huffman |-> h, reader |-> reader, ret |-> None]
  ELSE IF IsSome(h.marker)
    THEN read_bytes([h EXCEPT !.bits = @ \o BitsOf(0, 8), !.num_bits = @ + 8], reader)
  ELSE IF reader = <<>> THEN [huffman |-> h, reader |-> reader, ret |-> Some(Io)]
  ELSE IF reader[1] # 255
    THEN read_bytes([h EXCEPT !.bits = @ \o BitsOf(reader[1], 8), !.num_bits = @ + 8],
                    Tail(reader))
  ELSE IF Len(reader) = 1 THEN [huffman |-> h, reader |-> <<>>, ret |-> Some(Io)]
  ELSE IF reader[2] = 0
    THEN read_bytes([h EXCEPT !.bits = @ \o BitsOf(255, 8), !.num_bits = @ + 8],
                    Tail(Tail(reader)))
  ELSE LET rest == Tail(reader)
           fill == {k \in 1..Len(rest) : \A m \in 1..k : rest[m] = 255}
           at == Cardinality(fill) + 1
       IN IF at > Len(rest) THEN [huffman |-> h, reader |-> <<>>, ret |-> Some(Io)]
          ELSE IF rest[at] = 0
            THEN [huffman |-> h, reader |-> SubSeq(rest, at + 1, Len(rest)),
                  ret |-> Some(Format("FF 00 found where marker was expected"))]
          ELSE read_bytes([h EXCEPT !.marker = Some(rest[at])],
                          SubSeq(rest, at + 1, Len(rest)))

\* the bit by bit search of decode, from the code length i + 1 on
RECURSIVE decode_bits(_, _, _, _)
decode_bits(h, table, i, code) ==
  IF i = 16 THEN [huffman |-> h, ret |-> Format("failed to decode huffman code")]
  ELSE LET bit == IF h.bits = <<>> THEN 0 ELSE h.bits[1]
           next == IF h.bits = <<>> THEN h ELSE consume_bits(h, 1)
           c == code + bit
       IN IF c <= table.maxcode[i]
            THEN LET index == c + table.value_offset[i]
                 IN [huffman |-> next,
                     ret |-> IF index >= 0 /\ index < Len(table.values)
                               THEN Ok(table.values[index + 1])
                             ELSE Panic("index out of bounds")]
          ELSE decode_bits(next, table, i + 1, (c * 2) % 65536)

decode_with(h, reader, table) ==
  LET filled == IF h.num_bits < 16 THEN read_bytes(h, reader)
                ELSE [huffman |-> h, reader |-> reader, ret |-> None]
      top == SubSeq(filled.huffman.bits \o BitsOf(0, LUT_BITS), 1, LUT_BITS)
      entry == table.lut[BitsValue(top)]
      searched == decode_bits(filled.huffman, table, 0, 0)
  IN IF IsSome(filled.ret)
       THEN [huffman |-> filled.huffman, reader |-> filled.reader,
             ret |-> Unwrap(filled.ret)]
     ELSE IF entry[2] > 0
       THEN [huffman |-> consume_bits(filled.huffman, entry[2]),
             reader |-> filled.reader, ret |-> Ok(entry[1])]
     ELSE [huffman |-> searched.huffman, reader |-> filled.reader, ret |-> searched.ret]

(***************************************************************************)
(* The tables of the histograms with up to MaxCodes codes of the lengths   *)
(* 1, 2, 8, 9 and 16, and of the histogram of the complete code with one   *)
(* code of every length up to 15 and two codes of 16 bits.  The i-th value *)
(* of a table is i.  The reader holds the code words of up to MaxFed       *)
(* symbols and then a byte, repeated, StreamBytes bytes in all.           *)
(***************************************************************************)
MaxCodes == 3
MaxFed == 3
StreamBytes == 8
StreamBits == 8 * StreamBytes
HuffLengths == {1, 2, 8, 9, 16}
HuffTails == {0, 165, 255}

Histogram(count) == [i \in 0..15 |-> IF i + 1 \in DOMAIN count THEN count[i + 1] ELSE 0]

HuffHistograms ==
  {Histogram(count) : count \in {c \in [HuffLengths -> 0..2] :
      LET total == c[1] + c[2] + c[8] + c[9] + c[16]
      IN total >= 1 /\ total <= MaxCodes}}
  \cup {[i \in 0..15 |-> IF i = 15 THEN 2 ELSE 1]}

HuffInit ==
  /\ \E bits \in HuffHistograms, overflow_checks \in BOOLEAN :
       dec = [bits |-> bits, overflow_checks |-> overflow_checks,
              derived |-> derive_huffman_codes(bits, overflow_checks),
              codes |-> codes_before(bits, 16)]
  /\ loc = [pc |-> "table", huffman |-> HuffmanDecoder_new, reader |-> <<>>,
            fed |-> <<>>, decoded |-> 0]
  /\ res = NoResult
  /\ hist = [stream |-> <<>>]
  /\ ref = None

\* the table of the histogram, the i-th value being i
HuffTable == HuffmanTable_new(dec.bits, [i \in 1..dec.codes |-> i], dec.overflow_checks)

CodeWord(i) == BitsOf(Val(dec.derived).huffcode[i], Val(dec.derived).huffsize[i])

RECURSIVE CodeWords(_)
CodeWords(symbols) ==
  IF symbols = <<>> THEN <<>> ELSE CodeWord(symbols[1]) \o CodeWords(Tail(symbols))

StreamOf(symbols, tail) ==
  LET words == CodeWords(symbols)
      byte == BitsOf(tail, 8)
  IN words \o [k \in 1..(StreamBits - Len(words)) |-> byte[((Len(words) + k - 1) % 8) + 1]]

\* the bytes of the stream, a zero byte after every byte FF
RECURSIVE Stuffed(_)
Stuffed(stream) ==
  IF stream = <<>> THEN <<>>
  ELSE LET byte == BitsValue(SubSeq(stream, 1, 8))
       IN (IF byte = 255 THEN <<255, 0>> ELSE <<byte>>)
          \o Stuffed(SubSeq(stream, 9, Len(stream)))

HuffSymbols == 1..dec.codes

\* The reader is given the code words of the symbols and the tail.
HuffFeed(symbols, tail) ==
  /\ loc.pc = "table"
  /\ IsOk(dec.derived)
  /\ LET stream == StreamOf(symbols, tail)
     IN /\ loc' = [loc EXCEPT !.pc = "fed", !.fed = symbols, !.reader = Stuffed(stream)]
        /\ hist' = [hist EXCEPT !.stream = stream]
  /\ UNCHANGED <<dec, res, ref>>

HuffDecode ==
  /\ loc.pc = "fed"
  /\ loc.decoded < Len(loc.fed)
  /\ LET d == decode_with(loc.huffman, loc.reader, Val(HuffTable))
     IN /\ loc' = [loc EXCEPT !.huffman = d.huffman, !.reader = d.reader,
                              !.decoded = @ + 1]
        /\ res' = [op |-> "decode", r |-> d.ret]
  /\ UNCHANGED <<dec, hist, ref>>

HuffNext ==
  \/ /\ loc.pc = "table"
     /\ \E n \in 1..MaxFed : \E symbols \in [1..n -> HuffSymbols], tail \in HuffTails :
          HuffFeed(symbols, tail)
  \/ HuffDecode

SpecHuffman == HuffInit /\ [][HuffNext]_vars

\* the bits decode has taken from the stream so far
HuffConsumed ==
  LET stuffing == {k \in 2..Len(loc.reader) : loc.reader[k] = 0 /\ loc.reader[k - 1] = 255}
  IN StreamBits - 8 * (Len(loc.reader) - Cardinality(stuffing)) - loc.huffman.num_bits

RECURSIVE HuffLength(_)
HuffLength(symbols) ==
  IF symbols = <<>> THEN 0 ELSE Len(CodeWord(symbols[1])) + HuffLength(Tail(symbols))

HuffDecoded == loc.pc = "fed" /\ loc.decoded > 0

\* C17: for every histogram of code lengths that derive_huffman_codes
\* accepts and every symbol of its table, decode on the symbol's code word
\* followed by any bits returns the symbol and consumes the length of the
\* code word, by the lookup table (up to 8 bits) or bit by bit (9 to 16).
C17_DecodeReturnsSymbol ==
  HuffDecoded =>
    /\ res.r = Ok(Val(HuffTable).values[loc.fed[loc.decoded]])
    /\ HuffConsumed = HuffLength(SubSeq(loc.fed, 1, loc.decoded))

\* sum of 2^(16 - length) over the codes: at most 2^16 for a prefix code
RECURSIVE KraftSum(_, _)
KraftSum(bits, i) ==
  IF i = 16 THEN 0 ELSE bits[i] * 2 ^ (15 - i) + KraftSum(bits, i + 1)

\* What holds of the code: the symbols of the histograms that a prefix code
\* exists for are decoded as the claim says.
C17_DecodeOfPrefixCodes ==
  KraftSum(dec.bits, 0) <= 65536 => C17_DecodeReturnsSymbol

\* Two codes of one bit and one of sixteen bits are accepted; the code word
\* of the third symbol is sixteen zeros and decodes to the first symbol.
C17_OversubscribedAccepted ==
  /\ HuffDecoded
  /\ KraftSum(dec.bits, 0) > 65536
  /\ dec.bits[0] = 2 /\ dec.bits[15] = 1
  /\ loc.fed = <<3>>
  /\ res.r = Ok(1)
  /\ HuffConsumed = 1

\* a code of 9 to 16 bits found bit by bit, after a refill in mid-stream
C17_LongCodeAfterRefill ==
  /\ HuffDecoded
  /\ loc.decoded = 3
  /\ Len(CodeWord(loc.fed[3])) > LUT_BITS
  /\ HuffLength(SubSeq(loc.fed, 1, 2)) > 16
  /\ C17_DecodeReturnsSymbol


(***************************************************************************)
(* huffman.rs: receive and receive_extend on a reader of bytes, for every  *)
(* count from 0.  The u32 that receive returns is kept as its bits.  A     *)
(* count of 0 makes receive shift the u32 by 32 and extend subtract 1     *)
(* from the u32 0: a panic in a build with overflow checks; without them   *)
(* the shifts are taken modulo 32.                                         *)
(***************************************************************************)
\* value as i32, of the bits of a u32
as_i32(bits) ==
  IF Len(bits) = 32 /\ bits[1] = 1
    THEN i32_MIN + BitsValue(SubSeq(bits, 2, 32))
  ELSE BitsValue(bits)

receive_bits(h, reader, count, overflow_checks) ==
  LET filled == IF h.num_bits < count THEN read_bytes(h, reader)
                ELSE [huffman |-> h, reader |-> reader, ret |-> None]
      buffer == filled.huffman.bits \o [k \in 1..(32 - Len(filled.huffman.bits)) |-> 0]
  IN IF IsSome(filled.ret)
       THEN [huffman |-> filled.huffman, reader |-> filled.reader,
             ret |-> Unwrap(filled.ret)]
     ELSE IF filled.huffman.num_bits < count
       THEN [huffman |-> filled.huffman, reader |-> filled.reader,
             ret |-> Format("not enough bits in huffman receive")]
     ELSE IF count = 0 /\ overflow_checks
       THEN [huffman |-> filled.huffman, reader |-> filled.reader,
             ret |-> Panic("attempt to shift left with overflow")]
     ELSE IF count = 0
       THEN [huffman |-> filled.huffman, reader |-> filled.reader, ret |-> Ok(buffer)]
     ELSE [huffman |-> consume_bits(filled.huffman, count), reader |-> filled.reader,
           ret |-> Ok(SubSeq(buffer, 1, count))]

extend_i32(value, count, overflow_checks) ==
  IF count > 0 THEN Ok(extend(value, count))
  ELSE IF overflow_checks THEN Panic("attempt to subtract with overflow")
  ELSE Ok(value)  \* vt is 1 << 31, the least i32: no value is below it

receive_extend_bits(h, reader, count, overflow_checks) ==
  LET r == receive_bits(h, reader, count, overflow_checks)
  IN IF IsOk(r.ret)
       THEN [r EXCEPT !.ret = extend_i32(as_i32(Val(r.ret)), count, overflow_checks)]
     ELSE r

(***************************************************************************)
(* Calls of receive_extend with the counts 0..15 on the data bytes of a    *)
(* scan, which a marker follows.                                           *)
(***************************************************************************)
MaxReceiveBytes == 3
MaxReceiveCalls == 2
ReceiveBytes == {0, 90, 165, 255}
ReceiveCounts == 0..15
EOI_byte == 217

RECURSIVE StuffedBytes(_)
StuffedBytes(bytes) ==
  IF bytes = <<>> THEN <<>>
  ELSE (IF bytes[1] = 255 THEN <<255, 0>> ELSE <<bytes[1]>>) \o StuffedBytes(Tail(bytes))

ReceiveInit ==
  /\ \E overflow_checks \in BOOLEAN : dec = [overflow_checks |-> overflow_checks]
  /\ \E n \in 0..MaxReceiveBytes : \E bytes \in [1..n -> ReceiveBytes] :
       loc = [huffman |-> HuffmanDecoder_new,
              reader |-> StuffedBytes(bytes) \o <<255, EOI_byte>>,
              calls |-> 0]
  /\ res = NoResult
  /\ hist = [before |-> HuffmanDecoder_new]
  /\ ref = None

ReceiveExtend(count) ==
  /\ loc.calls < MaxReceiveCalls
  /\ ~(res.op = "receive_extend" /\ ~IsOk(res.r))
  /\ LET r == receive_extend_bits(loc.huffman, loc.reader, count, dec.overflow_checks)
     IN /\ loc' = [huffman |-> r.huffman, reader |-> r.reader, calls |-> loc.calls + 1]
        /\ res' = [op |-> "receive_extend", r |-> r.ret]
  /\ hist' = [before |-> loc.huffman]
  /\ ref' = Some(count)
  /\ UNCHANGED dec

ReceiveNext == \E count \in ReceiveCounts : ReceiveExtend(count)

SpecReceive == ReceiveInit /\ [][ReceiveNext]_vars

ReceiveReturned == res.op = "receive_extend"
ReceiveCount == Unwrap(ref)

\* C18: for every n in 0..=15 and every n-bit input, receive_extend(n)
\* returns, without failing, a value v with -(2^n - 1) <= v <= 2^n - 1 (so
\* n = 0 yields 0).
C18_ExtendedValueInRange ==
  ReceiveReturned =>
    /\ IsOk(res.r)
    /\ Val(res.r) >= -(2 ^ ReceiveCount - 1)
    /\ Val(res.r) <= 2 ^ ReceiveCount - 1

\* What holds of the code: the range, for the counts 1..=15.
C18_RangeOfPositiveCounts ==
  (ReceiveReturned /\ ReceiveCount > 0) => C18_ExtendedValueInRange

\* A count of 0 returns the whole bit buffer as the value.
C18_ZeroCountReturnsBuffer ==
  /\ ReceiveReturned /\ ReceiveCount = 0
  /\ ~dec.overflow_checks
  /\ hist.before.num_bits > 0
  /\ IsOk(res.r) /\ Val(res.r) < 0

\* A count of 0 panics in a build with overflow checks.
C18_ZeroCountPanics ==
  /\ ReceiveReturned /\ ReceiveCount = 0
  /\ dec.overflow_checks
  /\ res.r.kind = "Panic"


(***************************************************************************)
(* idct.rs: dequantize_and_idct_block.  A vector is a function of its      *)
(* lanes, the coefficients and the quantization table are functions of     *)
(* 0..63 and the output one of its indices.  The lanes are i32 with        *)
(* wrapping arithmetic; the blocks below stay within the i32 range.        *)
(* stbi_f2f(x) is (x * 4096.0 + 0.5) as i32 in f32 arithmetic, given here  *)
(* by its values at the constants of the source, named by their digits.    *)
(***************************************************************************)
stbi_f2f(x) ==
  CASE x = "0.5411961" -> 2217
    [] x = "-1.847759065" -> -7567
    [] x = "0.765366865" -> 3135
    [] x = "1.175875602" -> 4816
    [] x = "0.298631336" -> 1223
    [] x = "2.053119869" -> 8410
    [] x = "3.072711026" -> 12586
    [] x = "1.501321110" -> 6149
    [] x = "-0.899976223" -> -3685
    [] x = "-2.562915447" -> -10497
    [] x = "-1.961570560" -> -8034
    [] x = "-0.390180644" -> -1597

\* x >> n of an i32
shr(x, n) == x \div (2 ^ n)

\* a value of -128..127 shifted by 128, clamped to 0..255, without the shift
stbi_clamp_signed(x) == IF x < -128 THEN -128 ELSE IF x > 127 THEN 127 ELSE x
stbi_clamp(x) == IF x < 0 THEN 0 ELSE IF x > 255 THEN 255 ELSE x

simd_transpose(n, s) == [i \in 0..(n - 1) |-> [j \in 0..(n - 1) |-> s[j][i]]]

\* rows 0..n-1 of coefficients * quantization_table, n lanes each
dequantized(n, coefficients, quantization_table) ==
  [i \in 0..(n - 1) |-> [l \in 0..(n - 1) |->
     coefficients[8 * i + l] * quantization_table[8 * i + l]]]

idct_1d_x(s, correction) ==
  LET p1(l) == (s[2][l] + s[6][l]) * stbi_f2f("0.5411961")
      t2(l) == p1(l) + s[6][l] * stbi_f2f("-1.847759065")
      t3(l) == p1(l) + s[2][l] * stbi_f2f("0.765366865")
      t0(l) == (s[0][l] + s[4][l]) * 4096
      t1(l) == (s[0][l] - s[4][l]) * 4096
  IN [i \in 0..3 |-> [l \in 0..7 |->
        CASE i = 0 -> t0(l) + t3(l) + correction
          [] i = 1 -> t1(l) + t2(l) + correction
          [] i = 2 -> t1(l) - t2(l) + correction
          [] i = 3 -> t0(l) - t3(l) + correction]]

idct_1d_t(s) ==
  LET p3(l) == s[7][l] + s[3][l]
      p4(l) == s[5][l] + s[1][l]
      p1(l) == s[7][l] + s[1][l]
      p2(l) == s[5][l] + s[3][l]
      p5(l) == (p3(l) + p4(l)) * stbi_f2f("1.175875602")
      t0(l) == s[7][l] * stbi_f2f("0.298631336")
      t1(l) == s[5][l] * stbi_f2f("2.053119869")
      t2(l) == s[3][l] * stbi_f2f("3.072711026")
      t3(l) == s[1][l] * stbi_f2f("1.501321110")
      q1(l) == p5(l) + p1(l) * stbi_f2f("-0.899976223")
      q2(l) == p5(l) + p2(l) * stbi_f2f("-2.562915447")
      q3(l) == p3(l) * stbi_f2f("-1.961570560")
      q4(l) == p4(l) * stbi_f2f("-0.390180644")
  IN [i \in 0..3 |-> [l \in 0..7 |->
        CASE i = 0 -> t0(l) + q1(l) + q3(l)
          [] i = 1 -> t1(l) + q2(l) + q4(l)
          [] i = 2 -> t2(l) + q2(l) + q3(l)
          [] i = 3 -> t3(l) + q1(l) + q4(l)]]

\* the eight vectors (x[0] + t[3], .., x[0] - t[3]) >> shift
idct_1d(s, correction, shift) ==
  LET x == idct_1d_x(s, correction)
      t == idct_1d_t(s)
  IN [i \in 0..7 |-> [l \in 0..7 |->
        IF i < 4 THEN shr(x[i][l] + t[3 - i][l], shift)
        ELSE shr(x[7 - i][l] - t[i - 4][l], shift)]]

\* output with the rows of results written at the line stride
write_rows(n, results, output_linestride, output) ==
  [k \in DOMAIN output |->
     IF k \div output_linestride < n /\ k % output_linestride < n
       THEN results[k \div output_linestride][k % output_linestride]
     ELSE output[k]]

dequantize_and_idct_block_8x8(coefficients, quantization_table, output_linestride, output) ==
  LET s == dequantized(8, coefficients, quantization_table)
      rows == idct_1d(s, 512, 10)
      columns == idct_1d(simd_transpose(8, rows), 65536 + 128 * 2 ^ 17, 17)
      results == [i \in 0..7 |-> [l \in 0..7 |-> stbi_clamp(columns[i][l])]]
  IN write_rows(8, simd_transpose(8, results), output_linestride, output)

dequantize_and_idct_block_4x4(coefficients, quantization_table, output_linestride, output) ==
  LET CONST_BITS == 12
      PASS1_BITS == 2
      FINAL_BITS == CONST_BITS + PASS1_BITS + 3
      s == dequantized(4, coefficients, quantization_table)
      pass1 ==
        LET x0(l) == (s[0][l] + s[2][l]) * 2 ^ PASS1_BITS
            x2(l) == (s[0][l] - s[2][l]) * 2 ^ PASS1_BITS
            p1(l) == (s[1][l] + s[3][l]) * stbi_f2f("0.5411961")
            t0(l) == shr(p1(l) + s[3][l] * stbi_f2f("-1.847759065") + 512,
                         CONST_BITS - PASS1_BITS)
            t2(l) == shr(p1(l) + s[1][l] * stbi_f2f("0.765366865") + 512,
                         CONST_BITS - PASS1_BITS)
        IN [i \in 0..3 |-> [l \in 0..3 |->
              CASE i = 0 -> x0(l) + t2(l)
                [] i = 1 -> x2(l) + t0(l)
                [] i = 2 -> x2(l) - t0(l)
                [] i = 3 -> x0(l) - t2(l)]]
      c == simd_transpose(4, pass1)
      results ==
        LET round == 2 ^ (FINAL_BITS - 1) + 128 * 2 ^ FINAL_BITS
            x0(l) == (c[0][l] + c[2][l]) * 2 ^ CONST_BITS + round
            x2(l) == (c[0][l] - c[2][l]) * 2 ^ CONST_BITS + round
            p1(l) == (c[1][l] + c[3][l]) * stbi_f2f("0.5411961")
            t0(l) == p1(l) + c[3][l] * stbi_f2f("-1.847759065")
            t2(l) == p1(l) + c[1][l] * stbi_f2f("0.765366865")
        IN [i \in 0..3 |-> [l \in 0..3 |->
              stbi_clamp(shr(CASE i = 0 -> x0(l) + t2(l)
                               [] i = 1 -> x2(l) + t0(l)
                               [] i = 2 -> x2(l) - t0(l)
                               [] i = 3 -> x0(l) - t2(l), FINAL_BITS))]]
  IN write_rows(4, simd_transpose(4, results), output_linestride, output)

dequantize_and_idct_block_2x2(coefficients, quantization_table, output_linestride, output) ==
  LET SCALE_BITS == 3
      s(k) == coefficients[k] * quantization_table[k]
      round == 2 ^ (SCALE_BITS - 1) + 128 * 2 ^ SCALE_BITS
      x0 == s(0) + s(8) + round
      x2 == s(0) - s(8) + round
      x1 == s(1) + s(9)
      x3 == s(1) - s(9)
  IN [output EXCEPT
        ![0] = stbi_clamp(shr(x0 + x1, SCALE_BITS)),
        ![1] = stbi_clamp(shr(x0 - x1, SCALE_BITS)),
        ![output_linestride] = stbi_clamp(shr(x2 + x3, SCALE_BITS)),
        ![output_linestride + 1] = stbi_clamp(shr(x2 - x3, SCALE_BITS))]

\* Wrapping / Wrapping is the division of i32, which rounds towards zero
dequantize_and_idct_block_1x1(coefficients, quantization_table, output_linestride, output) ==
  LET sum == coefficients[0] * quantization_table[0] + 128 * 8
      s0 == IF sum >= 0 THEN sum \div 8 ELSE -((-sum) \div 8)
  IN [output EXCEPT ![0] = stbi_clamp(s0)]

dequantize_and_idct_block(dct_scale, coefficients, quantization_table, linestride, output) ==
  CASE dct_scale = 8 ->
         dequantize_and_idct_block_8x8(coefficients, quantization_table,
                                       linestride, output)
    [] dct_scale = 4 ->
         dequantize_and_idct_block_4x4(coefficients, quantization_table,
                                       linestride, output)
    [] dct_scale = 2 ->
         dequantize_and_idct_block_2x2(coefficients, quantization_table,
                                       linestride, output)
    [] dct_scale = 1 ->
         dequantize_and_idct_block_1x1(coefficients, quantization_table,
                                       linestride, output)

(***************************************************************************)
(* The blocks: all zero, one coefficient of -1 or 1, and the block of the  *)
(* source's test; the tables: one value at all places, the place plus one, *)
(* and the table of the source's test.  The output is a buffer of unset    *)
(* samples (-1) of 8 lines of the line stride.                             *)
(***************************************************************************)
MaxIdctPlace == 9
IdctQuantValues == {1, 16, 255, 65535}
IdctScales == {1, 2, 4, 8}
MaxIdctStride == 9

ZeroBlock == [k \in 0..63 |-> 0]

TestCoefficients ==
  << -14, -39, 58, -2, 3, 3, 0, 1,
     11, 27, 4, -3, 3, 0, 1, 0,
     -6, -13, -9, -1, -2, -1, 0, 0,
     -4, 0, -1, -2, 0, 0, 0, 0,
     3, 0, 0, 0, 0, 0, 0, 0,
     -3, -2, 0, 0, 0, 0, 0, 0,
     0, 0, 0, 0, 0, 0, 0, 0,
     0, 0, 0, 0, 0, 0, 0, 0 >>

TestQuantizationTable ==
  << 8, 6, 5, 8, 12, 20, 26, 31,
     6, 6, 7, 10, 13, 29, 30, 28,
     7, 7, 8, 12, 20, 29, 35, 28,
     7, 9, 11, 15, 26, 44, 40, 31,
     9, 11, 19, 28, 34, 55, 52, 39,
     12, 18, 28, 32, 41, 52, 57, 46,
     25, 32, 39, 44, 52, 61, 60, 51,
     36, 46, 48, 49, 56, 50, 52, 50 >>

TestExpectedOutput ==
  << 118, 92, 110, 83, 77, 93, 144, 198,
     172, 116, 114, 87, 78, 93, 146, 191,
     194, 107, 91, 76, 71, 93, 160, 198,
     196, 100, 80, 74, 67, 92, 174, 209,
     182, 104, 88, 81, 68, 89, 178, 206,
     105, 64, 59, 59, 63, 94, 183, 201,
     35, 27, 28, 37, 72, 121, 203, 204,
     37, 45, 41, 47, 98, 154, 223, 208 >>

FromZero(seq) == [k \in 0..(Len(seq) - 1) |-> seq[k + 1]]

IdctBlocks ==
  {ZeroBlock, FromZero(TestCoefficients)}
  \cup {[ZeroBlock EXCEPT ![place] = v] : place \in 0..MaxIdctPlace, v \in {-1, 1}}

IdctTables ==
  {[k \in 0..63 |-> q] : q \in IdctQuantValues}
  \cup {[k \in 0..63 |-> k + 1], FromZero(TestQuantizationTable)}

\* the coefficients times the table stay below 2^16 but for the zero block
IdctInRange(coefficients, quantization_table) ==
  coefficients = ZeroBlock \/ \A k \in 0..63 : quantization_table[k] < 65535

IdctInit ==
  /\ \E dct_scale \in IdctScales, coefficients \in IdctBlocks,
        quantization_table \in IdctTables, output_linestride \in 8..MaxIdctStride :
       /\ IdctInRange(coefficients, quantization_table)
       /\ dec = [dct_scale |-> dct_scale, coefficients |-> coefficients,
                 quantization_table |-> quantization_table,
                 output_linestride |-> output_linestride]
  /\ loc = [pc |-> "block",
            output |-> [k \in 0..(8 * dec.output_linestride - 1) |-> -1]]
  /\ res = NoResult
  /\ hist = InitHist
  /\ ref = None

IdctBlock ==
  /\ loc.pc = "block"
  /\ loc' = [pc |-> "written",
             output |-> dequantize_and_idct_block(dec.dct_scale, dec.coefficients,
                                                  dec.quantization_table,
                                                  dec.output_linestride, loc.output)]
  /\ UNCHANGED <<dec, res, hist, ref>>

IdctNext == IdctBlock

SpecIdct == IdctInit /\ [][IdctNext]_vars

IdctWritten == loc.pc = "written"
IdctSample(i, j) == loc.output[i * dec.output_linestride + j]

\* C19: for every scale of 1, 2, 4, 8 and every quantization table,
\* dequantize_and_idct_block on a block of zero coefficients writes 128 to
\* every sample of the scale x scale output block.
C19_ZeroBlockIsMidGrey ==
  (IdctWritten /\ dec.coefficients = ZeroBlock) =>
    \A i \in 0..(dec.dct_scale - 1), j \in 0..(dec.dct_scale - 1) : IdctSample(i, j) = 128

\* a zero block at full size under the table of 65535s, on lines longer
\* than the block: the 64 samples are written and no others
C19_ZeroBlockFullSize ==
  /\ IdctWritten /\ dec.coefficients = ZeroBlock
  /\ dec.dct_scale = 8 /\ dec.output_linestride > 8
  /\ dec.quantization_table[0] = 65535
  /\ IdctSample(7, 7) = 128
  /\ IdctSample(0, 8) = -1

\* the source's test_dequantize_and_idct_block_8x8
test_dequantize_and_idct_block_8x8 ==
  (/\ IdctWritten /\ dec.dct_scale = 8 /\ dec.output_linestride = 8
   /\ dec.coefficients = FromZero(TestCoefficients)
   /\ dec.quantization_table = FromZero(TestQuantizationTable))
    => loc.output = FromZero(TestExpectedOutput)


(***************************************************************************)
(* RST markers in the marker loop of decode_internal: the segments of a    *)
(* baseline frame of one component, its scans, whose entropy-coded data    *)
(* end with or without a marker taken, and RST markers anywhere.           *)
(***************************************************************************)
MaxRstSegments == 6

RstInit ==
  /\ dec = Decoder_new
  /\ loc = IdleLoc
  /\ res = NoResult
  /\ hist = [InitHist EXCEPT !.budget = MaxRstSegments]
  /\ ref = None

RstNext ==
  \/ Decode("SOI")
  \/ MarkerSOF(SofSegment(0, 8, 1, 1, <<1>>))
  \/ MarkerDQT(DqtSegment(0))
  \/ MarkerDHT(DhtSegment)
  \/ \E e \in {Entropy("Ok", None), Entropy("Ok", Some(EOI))} :
       MarkerSOS(SosSegment(<<1>>, 0, 63, 0, 0), e)
  \/ \E n \in {0, 7} : MarkerRST(n)
  \/ MarkerEOI

SpecRst == RstInit /\ [][RstNext]_vars

RstMet(h) == IsSome(h.last_marker) /\ Unwrap(h.last_marker).kind = "RST"
RstError == Format("RST found outside of entropy-coded data")

\* C20: an RST marker met by the marker loop of decode(), outside the
\* entropy-coded data of a scan, makes decode() return a Format error.
C20_RstIsFormatError ==
  RstMet(hist) => (hist.fresh /\ res.op = "decode" /\ res.r = RstError)

\* C20, amended: an RST marker met by the marker loop makes decode() return
\* a Format error unless the marker before it was SOS; the RST marker that
\* follows a scan is skipped and the loop goes on with the decoder as it was.
C20_RstIsFormatErrorUnlessAfterScan ==
  [][(loc.pc = "loop" /\ hist'.segments = hist.segments + 1 /\ RstMet(hist')) =>
       IF loc.previous_marker = SOS
         THEN loc'.pc = "loop" /\ dec' = dec /\ res' = res
              /\ loc'.previous_marker = Unwrap(hist'.last_marker)
       ELSE loc'.pc = "idle" /\ hist'.fresh /\ res'.op = "decode" /\ res'.r = RstError]_vars

\* decode() has returned the error for an RST marker that follows a marker
\* other than SOS, here another RST marker
C20_SecondRstIsError ==
  /\ RstMet(hist) /\ hist.fresh /\ res.r = RstError
  /\ hist.scans # {}

\* the RST marker after a scan has been skipped
C20_RstAfterScanSkipped ==
  /\ RstMet(hist) /\ loc.pc = "loop"


(***************************************************************************)
(* take_marker at the end of the entropy-coded data of a restart interval  *)
(* or a scan.  The reader holds the data bytes, the marker that ends them  *)
(* (its second byte stands for it) and the bytes after it; the decoder     *)
(* takes the bits of the data in pieces of 1 to 16 bits, as its decode and *)
(* receive do, and calls take_marker.  hist.consumed counts the bits       *)
(* taken, hist.takes the values take_marker returned since the last piece. *)
(***************************************************************************)
MaxTakeBytes == 5
TakeCounts == {1, 3, 8, 16}
TakeMarkers == {208, 215, 217}

TakeInit ==
  /\ dec = [overflow_checks |-> FALSE]
  /\ \E n \in 1..MaxTakeBytes, b \in {0, 165, 255}, marker \in TakeMarkers :
       /\ loc = [huffman |-> HuffmanDecoder_new,
                 reader |-> StuffedBytes([k \in 1..n |-> b]) \o <<255, marker>> \o <<165, 165>>]
       /\ hist = [bytes |-> n, marker |-> marker, consumed |-> 0, takes |-> <<>>]
  /\ res = NoResult
  /\ ref = None

\* count bits of the data are taken; the refill is that of decode, which
\* refills below 16 bits, or that of receive, which refills below count bits
TakeBits(count, decoding) ==
  /\ hist.consumed + count <= 8 * hist.bytes
  /\ LET filled == IF decoding /\ loc.huffman.num_bits < 16
                     THEN read_bytes(loc.huffman, loc.reader)
                   ELSE [huffman |-> loc.huffman, reader |-> loc.reader, ret |-> None]
         r == receive_bits(filled.huffman, filled.reader, count, dec.overflow_checks)
     IN /\ IsNone(filled.ret) /\ IsOk(r.ret)
        /\ loc' = [huffman |-> r.huffman, reader |-> r.reader]
        /\ res' = [op |-> "receive", r |-> r.ret]
  /\ hist' = [hist EXCEPT !.consumed = @ + count, !.takes = <<>>]
  /\ UNCHANGED <<dec, ref>>

TakeMarker ==
  /\ Len(hist.takes) < 2
  /\ LET took == take_marker(loc.huffman)
     IN /\ loc' = [loc EXCEPT !.huffman = took.huffman]
        /\ res' = [op |-> "take_marker", r |-> Ok(took.marker)]
        /\ hist' = [hist EXCEPT !.takes = Append(@, took.marker)]
        /\ ref' = Some(loc.huffman.marker)
  /\ UNCHANGED dec

TakeNext ==
  \/ \E count \in TakeCounts, decoding \in BOOLEAN : TakeBits(count, decoding)
  \/ TakeMarker

SpecTake == TakeInit /\ [][TakeNext]_vars

\* all the data is decoded but the bits that pad its last byte
TakeBoundary == 8 * hist.bytes - hist.consumed < 8

\* C21: at a restart boundary and at the end of a scan, take_marker reads
\* the bytes still needed to reach the next marker of the stream and returns
\* Some(marker) for it, even when the bit buffer never had to refill past
\* the last byte of the data; a marker is returned once, and the call that
\* follows returns None.
C21_TakeMarkerReachesMarker ==
  (TakeBoundary /\ Len(hist.takes) >= 1) =>
    /\ hist.takes[1] = Some(hist.marker)
    /\ Len(hist.takes) = 2 => hist.takes[2] = None

\* What holds of the code: take_marker returns the marker that read_bits
\* has recorded, if any, once; it reads nothing.
C21_RecordedMarkerOnce ==
  [][res'.op = "take_marker" /\ res' # res =>
       /\ Val(res'.r) = loc.huffman.marker
       /\ IsNone(loc'.huffman.marker)
       /\ loc'.reader = loc.reader]_vars

\* The four data bytes filled the bit buffer and were decoded without a
\* refill: the marker is still in the reader and take_marker returns None.
C21_MarkerStillInReader ==
  /\ TakeBoundary /\ hist.bytes = 4 /\ hist.consumed = 32
  /\ hist.takes = <<None>>
  /\ loc.reader[1] = 255 /\ loc.reader[2] = hist.marker

\* the marker the refill met is returned, and None after it
C21_MarkerReturnedOnce ==
  /\ TakeBoundary
  /\ hist.takes = <<Some(hist.marker), None>>


(***************************************************************************)
(* huffman.rs and decoder.rs: decode_block on a reader of bytes, with the  *)
(* tables built from their DHT counts and values and the 64 coefficients   *)
(* of the block.  coefficients[p + 1] is the coefficient at position p.    *)
(***************************************************************************)
UNZIGZAG ==
  << 0,  1,  8, 16,  9,  2,  3, 10, 17, 24, 32, 25, 18, 11,  4,  5,
    12, 19, 26, 33, 40, 48, 41, 34, 27, 20, 13,  6,  7, 14, 21, 28,
    35, 42, 49, 56, 57, 50, 43, 36, 29, 22, 15, 23, 30, 37, 44, 51,
    58, 59, 52, 45, 38, 31, 39, 46, 53, 60, 61, 54, 47, 55, 62, 63>>

as_i16(x) == ((x + 32768) % 65536) - 32768

\* the entry i of fast_ac that HuffmanTable::new derives from lut[i]
fast_ac_entry(lut, i) ==
  LET value == lut[i][1]
      size == lut[i][2]
      run == (value \div 16) % 16
      magnitude_bits == value % 16
      unextended_ac_value ==
        ((i * 2 ^ size) % (2 ^ LUT_BITS)) \div (2 ^ (LUT_BITS - magnitude_bits))
      ac_value == extend(unextended_ac_value, magnitude_bits)
  IN IF /\ value < 255
        /\ magnitude_bits > 0
        /\ size + magnitude_bits <= LUT_BITS
        /\ ac_value >= -128
        /\ ac_value <= 127
       THEN ac_value * 256 + run * 16 + (size + magnitude_bits)
     ELSE 0

\* the field fast_ac of a table: Some for the class AC, None for the class DC
HuffmanTable_fast_ac(table, class) ==
  IF class = "AC" THEN Some([i \in 0..(2 ^ LUT_BITS - 1) |-> fast_ac_entry(table.lut, i)])
  ELSE None

decode_fast_ac_with(h, reader, fast_ac) ==
  LET looked_up(filled) ==
        LET top == SubSeq(filled.huffman.bits \o BitsOf(0, LUT_BITS), 1, LUT_BITS)
            value == Unwrap(fast_ac)[BitsValue(top)]
            run == ((value % 65536) \div 16) % 16
            size == (value % 65536) % 16
        IN IF IsSome(filled.ret)
             THEN [huffman |-> filled.huffman, reader |-> filled.reader,
                   ret |-> Unwrap(filled.ret)]
           ELSE IF value # 0
             THEN [huffman |-> consume_bits(filled.huffman, size),
                   reader |-> filled.reader,
                   ret |-> Ok(Some([value |-> shr(value, 8), run |-> run]))]
           ELSE [huffman |-> filled.huffman, reader |-> filled.reader, ret |-> Ok(None)]
  IN IF IsNone(fast_ac) THEN [huffman |-> h, reader |-> reader, ret |-> Ok(None)]
     ELSE looked_up(IF h.num_bits < LUT_BITS THEN read_bytes(h, reader)
                    ELSE [huffman |-> h, reader |-> reader, ret |-> None])

\* what decode_block works on and what it returns
BlockOf(huffman, reader, coefficients, eob_run, dc_predictor) ==
  [huffman |-> huffman, reader |-> reader, coefficients |-> coefficients,
   eob_run |-> eob_run, dc_predictor |-> dc_predictor, ret |-> Ok(0)]

Left(b, from, ret) == [b EXCEPT !.huffman = from.huffman, !.reader = from.reader, !.ret = ret]

\* the loop of Section F.1.2.2.1 from index on
RECURSIVE decode_block_loop(_, _, _, _, _, _, _)
decode_block_loop(b, index, ac_table, fast_ac, spectral_selection, al, overflow_checks) ==
  LET end_of_band(r, bits) ==
        IF ~IsOk(bits.ret) THEN [Left(b, bits, bits.ret) EXCEPT !.eob_run = 2 ^ r - 1]
        ELSE [Left(b, bits, Ok(0)) EXCEPT
                !.eob_run = 2 ^ r - 1 + BitsValue(Val(bits.ret))]
      valued(r, coefficient) ==
        IF ~IsOk(coefficient.ret) THEN Left(b, coefficient, coefficient.ret)
        ELSE decode_block_loop(
               [Left(b, coefficient, Ok(0)) EXCEPT
                  !.coefficients[UNZIGZAG[index + r + 1] + 1] =
                    as_i16(Val(coefficient.ret) * 2 ^ al)],
               index + r + 1, ac_table, fast_ac, spectral_selection, al, overflow_checks)
      coded(byte) ==
        LET r == Val(byte.ret) \div 16
            s == Val(byte.ret) % 16
        IN IF ~IsOk(byte.ret) THEN Left(b, byte, byte.ret)
           ELSE IF s = 0 /\ r = 15
             THEN decode_block_loop(Left(b, byte, Ok(0)), index + 16, ac_table, fast_ac,
                                    spectral_selection, al, overflow_checks)
           ELSE IF s = 0 /\ r = 0 THEN [Left(b, byte, Ok(0)) EXCEPT !.eob_run = 0]
           ELSE IF s = 0
             THEN end_of_band(r, receive_bits(byte.huffman, byte.reader, r,
                                              overflow_checks))
           ELSE IF index + r >= spectral_selection.end THEN Left(b, byte, Ok(0))
           ELSE valued(r, receive_extend_bits(byte.huffman, byte.reader, s,
                                              overflow_checks))
      looked_up(fast) ==
        IF ~IsOk(fast.ret) THEN Left(b, fast, fast.ret)
        ELSE IF IsSome(Val(fast.ret))
          THEN LET value == Unwrap(Val(fast.ret)).value
                   at == index + Unwrap(Val(fast.ret)).run
               IN IF at >= spectral_selection.end THEN Left(b, fast, Ok(0))
                  ELSE decode_block_loop(
                         [Left(b, fast, Ok(0)) EXCEPT
                            !.coefficients[UNZIGZAG[at + 1] + 1] = as_i16(value * 2 ^ al)],
                         at + 1, ac_table, fast_ac, spectral_selection, al,
                         overflow_checks)
        ELSE coded(decode_with(fast.huffman, fast.reader, ac_table))
  IN IF ~(index < spectral_selection.end) THEN b
     ELSE looked_up(decode_fast_ac_with(b.huffman, b.reader, fast_ac))

\* a block inside an end-of-band run: *eob_run -= 1; return Ok(())
end_of_band_run_kept(b) == b
end_of_band_run(b) == [b EXCEPT !.eob_run = @ - 1]

decode_block_on(b, dc_table, ac_table, fast_ac, spectral_selection, al, overflow_checks) ==
  LET index == Max(spectral_selection.start, 1)
      differed(diff) ==
        LET dc_predictor == wrapping_add(b.dc_predictor, Val(diff.ret))
        IN IF ~IsOk(diff.ret) THEN Left(b, diff, diff.ret)
           ELSE [Left(b, diff, Ok(0)) EXCEPT
                   !.dc_predictor = dc_predictor,
                   !.coefficients[1] = as_i16(dc_predictor * 2 ^ al)]
      dc(value) ==
        IF ~IsOk(value.ret) THEN Left(b, value, value.ret)
        ELSE IF Val(value.ret) > 11
          THEN Left(b, value, Format("invalid DC difference magnitude category"))
        ELSE differed(IF Val(value.ret) = 0
                        THEN [huffman |-> value.huffman, reader |-> value.reader,
                              ret |-> Ok(0)]
                      ELSE receive_extend_bits(value.huffman, value.reader,
                                               Val(value.ret), overflow_checks))
      ac(after) ==
        IF ~IsOk(after.ret) THEN after
        ELSE IF index < spectral_selection.end /\ after.eob_run > 0
          THEN end_of_band_run(after)
        ELSE decode_block_loop(after, index, ac_table, fast_ac, spectral_selection, al,
                               overflow_checks)
  IN ac(IF spectral_selection.start # 0 THEN b
        ELSE dc(decode_with(b.huffman, b.reader, dc_table)))


(***************************************************************************)
(* The blocks of one scan with Ah = 0.  The reader holds MaxBlockBytes     *)
(* bytes of entropy-coded data and then a marker, or one byte and nothing  *)
(* more; the scan                                                          *)
(* is a progressive AC band, or the whole block of a sequential frame.     *)
(* Every block holds the DC coefficient of an earlier scan when the band   *)
(* starts above 0.  ref keeps the block as it was before decode_block and  *)
(* what decode_block makes of it with a table without fast_ac.             *)
(***************************************************************************)
MaxBlockBytes == 3
MaxBlocks == 4
BlockBytes == {85, 144, 180, 219}
BlockEnds == {<<144>>, <<255, 217>>}
Band(start, end, al) == [spectral_selection |-> [start |-> start, end |-> end], al |-> al]
BlockBands == {Band(1, 2, 0), Band(1, 4, 1), Band(1, 64, 0), Band(0, 64, 0)}
BlockTables ==
  {[bits |-> Histogram(<<0, 2, 2, 4>>), values |-> <<0, 1, 17, 16, 2, 32, 240, 33>>],
   [bits |-> Histogram(<<1, 1, 1, 1, 1, 1, 1, 1, 2>>),
    values |-> <<0, 1, 17, 16, 2, 240, 33, 3, 18, 32>>]}

EarlierCoefficients(band) ==
  [p \in 1..64 |-> IF p = 1 /\ band.spectral_selection.start > 0 THEN 5 ELSE 0]

BlockInit ==
  /\ \E table \in BlockTables :
       LET built == Val(HuffmanTable_new(table.bits, table.values, FALSE))
           fast_ac == HuffmanTable_fast_ac(built, "AC")
       IN \E band \in BlockBands, end \in BlockEnds,
             bytes \in [1..MaxBlockBytes -> BlockBytes] :
            /\ dec = [table |-> table, built |-> built, fast_ac |-> fast_ac,
                      band |-> band, overflow_checks |-> FALSE]
            /\ loc = [huffman |-> HuffmanDecoder_new,
                      reader |-> StuffedBytes(bytes) \o end,
                      coefficients |-> EarlierCoefficients(band), eob_run |-> 0,
                      dc_predictor |-> 0, blocks |-> 0]
            /\ hist = [stream |-> bytes, end |-> end, expect |-> 0, skipped |-> 0]
  /\ res = NoResult
  /\ ref = None

\* the table of the scan, built once, and its field fast_ac
BlockTable == dec.built

BlockDecode ==
  /\ loc.blocks < MaxBlocks
  /\ res = NoResult \/ IsOk(res.r)
  /\ LET b == BlockOf(loc.huffman, loc.reader, EarlierCoefficients(dec.band), loc.eob_run,
                      loc.dc_predictor)
         Decoded(done, slow) ==
           /\ loc' = [huffman |-> done.huffman, reader |-> done.reader,
                      coefficients |-> done.coefficients, eob_run |-> done.eob_run,
                      dc_predictor |-> done.dc_predictor, blocks |-> loc.blocks + 1]
           /\ res' = [op |-> "decode_block", r |-> done.ret]
           /\ ref' = Some([before |-> b, slow |-> slow])
           /\ hist' = IF loc.eob_run > 0 THEN [hist EXCEPT !.skipped = @ + 1]
                      ELSE [hist EXCEPT !.expect = done.eob_run, !.skipped = 0]
     IN Decoded(decode_block_on(b, BlockTable, BlockTable, dec.fast_ac,
                                dec.band.spectral_selection, dec.band.al,
                                dec.overflow_checks),
                decode_block_on(b, BlockTable, BlockTable,
                                HuffmanTable_fast_ac(BlockTable, "DC"),
                                dec.band.spectral_selection, dec.band.al,
                                dec.overflow_checks))
  /\ UNCHANGED dec

BlockNext == BlockDecode

SpecBlock == BlockInit /\ [][BlockNext]_vars

BlockBefore == Unwrap(ref).before
BlockSlow == Unwrap(ref).slow
FirstPassAc == dec.band.spectral_selection.start > 0

\* The EOB code the data begins with, from the code words of Figure C.2:
\* its run bits r and the value v of the r bits appended to it.
RECURSIVE StreamBitsOf(_)
StreamBitsOf(bytes) ==
  IF bytes = <<>> THEN <<>> ELSE BitsOf(bytes[1], 8) \o StreamBitsOf(Tail(bytes))

FirstEob ==
  LET derived == Val(derive_huffman_codes(dec.table.bits, dec.overflow_checks))
      stream == StreamBitsOf(hist.stream)
      word(i) == BitsOf(derived.huffcode[i], derived.huffsize[i])
      r(i) == dec.table.values[i] \div 16
      met == {i \in 1..Len(dec.table.values) :
                /\ dec.table.values[i] % 16 = 0
                /\ r(i) < 15
                /\ SubSeq(stream, 1, Len(word(i))) = word(i)}
  IN IF met = {} THEN None
     ELSE LET i == CHOOSE i \in met : TRUE
          IN Some([r |-> r(i),
                   v |-> BitsValue(SubSeq(stream, Len(word(i)) + 1, Len(word(i)) + r(i)))])

\* C22: in a progressive first-pass AC scan a block that starts with
\* eob_run = n > 0 leaves its coefficients unchanged, consumes no bits and
\* leaves eob_run = n - 1; an EOB code with run bits r < 15 and appended
\* value v ends the current block, and exactly the next (1 << r) - 1 + v
\* blocks are skipped.
C22_EobRunSkipsBlocks ==
  (IsSome(ref) /\ FirstPassAc) =>
    /\ BlockBefore.eob_run > 0 =>
         /\ IsOk(res.r)
         /\ loc.coefficients = BlockBefore.coefficients
         /\ loc.huffman = BlockBefore.huffman
         /\ loc.reader = BlockBefore.reader
         /\ loc.eob_run = BlockBefore.eob_run - 1
    /\ (loc.blocks = 1 /\ IsSome(FirstEob) /\ hist.end = <<255, 217>>) =>
         /\ IsOk(res.r)
         /\ loc.coefficients = BlockBefore.coefficients
         /\ loc.eob_run = 2 ^ Unwrap(FirstEob).r - 1 + Unwrap(FirstEob).v
    /\ IsOk(res.r) => hist.skipped + loc.eob_run = hist.expect
    /\ (BlockBefore.eob_run = 0 /\ loc.blocks > 1) => hist.skipped = 0

\* the code 1101 of the first table is EOB with r = 2, the bits 10 after it
\* are v = 2: the five blocks after the first are skipped, three of them
\* here, and two are left to skip
C22_ThreeBlocksSkipped ==
  /\ FirstPassAc /\ IsSome(ref)
  /\ FirstEob = Some([r |-> 2, v |-> 2])
  /\ loc.blocks = 4 /\ hist.skipped = 3 /\ loc.eob_run = 2
  /\ hist.expect = 5

\* a run of two blocks is over and the next block is decoded from the data
C22_BlockAfterRunDecoded ==
  /\ FirstPassAc /\ IsSome(ref)
  /\ FirstEob = Some([r |-> 1, v |-> 1])
  /\ loc.blocks = 4 /\ BlockBefore.eob_run = 0
  /\ loc.huffman # BlockBefore.huffman


\* the bits the decoder is about to see: those of the bit buffer, then those
\* of the data left in the reader, then the zeros that stand for a marker
RECURSIVE DataBits(_)
DataBits(reader) ==
  IF reader = <<>> THEN <<>>
  ELSE IF reader[1] # 255 THEN BitsOf(reader[1], 8) \o DataBits(Tail(reader))
  ELSE IF Len(reader) >= 2 /\ reader[2] = 0
    THEN BitsOf(255, 8) \o DataBits(Tail(Tail(reader)))
  ELSE <<>>

UpcomingBits(h, reader) ==
  LET bits == h.bits \o (IF IsSome(h.marker) THEN <<>> ELSE DataBits(reader))
  IN SubSeq(bits \o BitsOf(0, 8 * (MaxBlockBytes + 2)), 1, 8 * (MaxBlockBytes + 2))

\* decode followed by receive_extend(s), on the bits decode_fast_ac was given
SlowAc(h, reader) ==
  LET byte == decode_with(h, reader, BlockTable)
      s == Val(byte.ret) % 16
      coefficient == receive_extend_bits(byte.huffman, byte.reader, s, dec.overflow_checks)
  IN IF ~IsOk(byte.ret) THEN byte
     ELSE IF s = 0 THEN [byte EXCEPT !.ret = Ok([value |-> 0, run |-> Val(byte.ret) \div 16])]
     ELSE IF ~IsOk(coefficient.ret) THEN coefficient
     ELSE [coefficient EXCEPT
             !.ret = Ok([value |-> Val(coefficient.ret), run |-> Val(byte.ret) \div 16])]

\* the block began with a code that decode_fast_ac answered
FastAcAnswered ==
  /\ IsSome(ref) /\ FirstPassAc /\ BlockBefore.eob_run = 0
  /\ LET fast == decode_fast_ac_with(BlockBefore.huffman, BlockBefore.reader, dec.fast_ac)
     IN IsOk(fast.ret) /\ IsSome(Val(fast.ret))

FastAcAgrees ==
  LET fast == decode_fast_ac_with(BlockBefore.huffman, BlockBefore.reader, dec.fast_ac)
      slow == SlowAc(BlockBefore.huffman, BlockBefore.reader)
  IN /\ IsOk(slow.ret)
     /\ Val(slow.ret) = Unwrap(Val(fast.ret))
     /\ UpcomingBits(slow.huffman, slow.reader) = UpcomingBits(fast.huffman, fast.reader)

BlockAgrees ==
  /\ BlockSlow.ret = res.r
  /\ BlockSlow.coefficients = loc.coefficients
  /\ BlockSlow.eob_run = loc.eob_run
  /\ IsOk(res.r) =>
       UpcomingBits(BlockSlow.huffman, BlockSlow.reader) = UpcomingBits(loc.huffman, loc.reader)

\* C23: the fast-AC lookup preserves behaviour: whenever decode_fast_ac
\* returns Some((value, run)), decode followed by receive_extend(s) on the
\* same bits yields the same run and value and consumes as many bits, and
\* decode_block leaves the same coefficients and the same position in the
\* bit stream with and without the lookup.
C23_FastAcPreservesBehaviour ==
  /\ FastAcAnswered => FastAcAgrees
  /\ IsSome(ref) => BlockAgrees

\* the two parts of the claim, one by one
C23_FastAcAgreesWithDecode == FastAcAnswered => FastAcAgrees
C23_BlockAgrees == IsSome(ref) => BlockAgrees

\* What holds: while the data is followed by a marker the lookup answers as
\* decode and receive_extend do, and the blocks agree unless the run of a
\* code the lookup answered reaches the end of the band.
C23_AgreesWithinBand ==
  (IsSome(ref) /\ hist.end = <<255, 217>>) =>
    /\ FastAcAnswered => FastAcAgrees
    /\ BlockSlow.ret = res.r
    /\ BlockSlow.coefficients = loc.coefficients
    /\ BlockSlow.eob_run = loc.eob_run
    /\ UpcomingBits(BlockSlow.huffman, BlockSlow.reader) # UpcomingBits(loc.huffman, loc.reader)
         => \E n \in 1..4 :
              SubSeq(UpcomingBits(BlockSlow.huffman, BlockSlow.reader), n + 1,
                     8 * (MaxBlockBytes + 1))
                = SubSeq(UpcomingBits(loc.huffman, loc.reader), 1,
                         8 * (MaxBlockBytes + 1) - n)

\* the lookup answered a code whose run passes the end of the band: it has
\* taken the bits of the value, decode has not
C23_ValueBitsTakenPastBand ==
  /\ FastAcAnswered /\ IsOk(res.r) /\ BlockSlow.ret = res.r
  /\ dec.band.spectral_selection.end = 2
  /\ UpcomingBits(BlockSlow.huffman, BlockSlow.reader) # UpcomingBits(loc.huffman, loc.reader)

\* the lookup answers from the bits it holds where decode asks the reader
\* for more and meets the end of the input
C23_DecodeMeetsEndOfInput ==
  /\ IsSome(ref) /\ IsOk(res.r) /\ BlockSlow.ret = Io


(***************************************************************************)
(* parser.rs on a reader of bytes: how far every segment parser reads.     *)
(* reader holds the bytes from the length field on, pos is the number of   *)
(* bytes read so far; a parser returns its result and the position it      *)
(* leaves the reader at.  A read past the end of the reader is the Io      *)
(* error, with the reader left at its end.                                 *)
(***************************************************************************)
Parsed(ret, pos) == [ret |-> ret, pos |-> pos]
Avail(reader, pos, n) == pos + n <= Len(reader)
Eof(reader) == Parsed(Io, Len(reader))
U8(reader, pos) == reader[pos + 1]
U16(reader, pos) == 256 * reader[pos + 1] + reader[pos + 2]

read_length_at_whole(reader) ==
  IF ~Avail(reader, 0, 2) THEN Eof(reader)
  ELSE IF U16(reader, 0) < 2 THEN Parsed(Format("invalid length"), 2)
  ELSE Parsed(Ok(U16(reader, 0)), 2)
read_length_at(reader) ==
  IF ~Avail(reader, 0, 2) THEN Eof(reader)
  ELSE IF U16(reader, 0) < 2 THEN Parsed(Format("invalid length"), 2)
  ELSE Parsed(Ok(U16(reader, 0) - 2), 2)

skip_bytes(reader, pos, length) ==
  IF ~Avail(reader, pos, length) THEN Eof(reader) ELSE Parsed(Ok(0), pos + length)

\* the loop of parse_sof over the component specifications
RECURSIVE sof_components_at(_, _, _, _, _)
sof_components_at(reader, pos, left, process, identifiers) ==
  IF left = 0 THEN Parsed(Ok(identifiers), pos)
  ELSE IF ~Avail(reader, pos, 1) THEN Eof(reader)
  ELSE IF U8(reader, pos) \in Range(identifiers)
    THEN Parsed(Format("duplicate frame component identifier"), pos + 1)
  ELSE IF ~Avail(reader, pos, 2) THEN Eof(reader)
  ELSE IF U8(reader, pos + 1) \div 16 = 0 \/ U8(reader, pos + 1) \div 16 > 4
    THEN Parsed(Format("invalid horizontal sampling factor"), pos + 2)
  ELSE IF U8(reader, pos + 1) % 16 = 0 \/ U8(reader, pos + 1) % 16 > 4
    THEN Parsed(Format("invalid vertical sampling factor"), pos + 2)
  ELSE IF ~Avail(reader, pos, 3) THEN Eof(reader)
  ELSE IF U8(reader, pos + 2) > 3 \/ (process = "Lossless" /\ U8(reader, pos + 2) # 0)
    THEN Parsed(Format("invalid quantization table index"), pos + 3)
  ELSE sof_components_at(reader, pos + 3, left - 1, process,
                         Append(identifiers, U8(reader, pos)))

parse_sof_at(reader, n) ==
  LET rl == read_length_at(reader)
      length == Val(rl.ret)
      process == sof_coding_process(n)
      precision == U8(reader, 2)
      width == U16(reader, 5)
      component_count == U8(reader, 7)
  IN IF ~IsOk(rl.ret) THEN rl
     ELSE IF length <= 6 THEN Parsed(Format("invalid length in SOF"), 2)
     ELSE IF ~Avail(reader, 2, 1) THEN Eof(reader)
     ELSE IF precision = 12 /\ n = 0
       THEN Parsed(Format("12 bit sample precision is not allowed in baseline"), 3)
     ELSE IF precision \notin {8, 12} /\ process # "Lossless"
       THEN Parsed(Format("invalid precision in frame header"), 3)
     ELSE IF ~Avail(reader, 3, 4) THEN Eof(reader)
     ELSE IF width = 0 THEN Parsed(Format("zero width in frame header"), 7)
     ELSE IF ~Avail(reader, 7, 1) THEN Eof(reader)
     ELSE IF component_count = 0
       THEN Parsed(Format("zero component count in frame header"), 8)
     ELSE IF process = "DctProgressive" /\ component_count > 4
       THEN Parsed(Format("progressive frame with more than 4 components"), 8)
     ELSE IF length # 6 + 3 * component_count
       THEN Parsed(Format("invalid length in SOF"), 8)
     ELSE sof_components_at(reader, 8, component_count, process, <<>>)

\* the loop of parse_sos over the components of the scan; frame is the
\* sequence of the frame's components [identifier, h, v]
RECURSIVE sos_components_at(_, _, _, _, _, _)
sos_components_at(reader, pos, left, frame, is_baseline, component_indices) ==
  LET identifier == U8(reader, pos)
      found == {i \in 1..Len(frame) : frame[i].identifier = identifier}
      component_index == (CHOOSE i \in found : \A j \in found : i <= j) - 1
      byte == U8(reader, pos + 1)
  IN IF left = 0 THEN Parsed(Ok(component_indices), pos)
     ELSE IF ~Avail(reader, pos, 1) THEN Eof(reader)
     ELSE IF found = {}
       THEN Parsed(Format("scan component identifier does not match"), pos + 1)
     ELSE IF component_index \in Range(component_indices)
       THEN Parsed(Format("duplicate scan component identifier"), pos + 1)
     ELSE IF component_index < MaxOf(Range(component_indices) \cup {0})
       THEN Parsed(Format("the scan component order does not follow the order in the frame header"), pos + 1)
     ELSE IF ~Avail(reader, pos, 2) THEN Eof(reader)
     ELSE IF byte \div 16 > 3 \/ (is_baseline /\ byte \div 16 > 1)
       THEN Parsed(Format("invalid dc table index"), pos + 2)
     ELSE IF byte % 16 > 3 \/ (is_baseline /\ byte % 16 > 1)
       THEN Parsed(Format("invalid ac table index"), pos + 2)
     ELSE sos_components_at(reader, pos + 2, left - 1, frame, is_baseline,
                            Append(component_indices, component_index))

RECURSIVE SumOver(_, _)
SumOver(f, s) == IF s = <<>> THEN 0 ELSE f[s[1]] + SumOver(f, Tail(s))

parse_sos_at(reader, frame, is_baseline, process) ==
  LET rl == read_length_at(reader)
      length == Val(rl.ret)
      component_count == U8(reader, 2)
      components == sos_components_at(reader, 3, component_count, frame, is_baseline, <<>>)
      at == components.pos
      blocks_per_mcu ==
        SumOver([i \in 0..(Len(frame) - 1) |-> frame[i + 1].h * frame[i + 1].v],
                Val(components.ret))
      ss == U8(reader, at)
      se == U8(reader, at + 1)
      ah == U8(reader, at + 2) \div 16
      al == U8(reader, at + 2) % 16
  IN IF ~IsOk(rl.ret) THEN rl
     ELSE IF length = 0 THEN Parsed(Format("zero length in SOS"), 2)
     ELSE IF ~Avail(reader, 2, 1) THEN Eof(reader)
     ELSE IF component_count = 0 \/ component_count > 4
       THEN Parsed(Format("invalid component count in scan header"), 3)
     ELSE IF length # 4 + 2 * component_count
       THEN Parsed(Format("invalid length in SOS"), 3)
     ELSE IF ~IsOk(components.ret) THEN components
     ELSE IF component_count > 1 /\ blocks_per_mcu > 10
       THEN Parsed(Format("scan with more than one component and more than 10 blocks per MCU"), at)
     ELSE IF ~Avail(reader, at, 3) THEN Eof(reader)
     ELSE IF process = "DctProgressive" /\ (se > 63 \/ ss > se \/ (ss = 0 /\ se # 0))
       THEN Parsed(Format("invalid spectral selection parameters"), at + 3)
     ELSE IF process = "DctProgressive" /\ ss # 0 /\ component_count # 1
       THEN Parsed(Format("spectral selection scan with AC coefficients can't have more than one component"), at + 3)
     ELSE IF process = "DctProgressive" /\ (ah > 13 \/ al > 13)
       THEN Parsed(Format("invalid successive approximation parameters"), at + 3)
     ELSE IF process = "DctProgressive" /\ ah # 0 /\ ah # al + 1
       THEN Parsed(Format("successive approximation scan with more than one bit of improvement"), at + 3)
     ELSE IF process # "DctProgressive" /\ (ss # 0 \/ se # 63)
       THEN Parsed(Format("spectral selection is not allowed in non-progressive scan"), at + 3)
     ELSE IF process # "DctProgressive" /\ (ah # 0 \/ al # 0)
       THEN Parsed(Format("successive approximation is not allowed in non-progressive scan"), at + 3)
     ELSE Parsed(Ok(Val(components.ret)), at + 3)

\* the loop of parse_dqt over the tables of the segment; tables is the set
\* of the destinations defined so far
RECURSIVE dqt_tables_at(_, _, _, _)
dqt_tables_at(reader, pos, length, tables) ==
  LET byte == U8(reader, pos)
      precision == byte \div 16
      index == byte % 16
      size == 64 * (precision + 1)
      table == [k \in 0..63 |-> IF precision = 1 THEN U16(reader, pos + 1 + 2 * k)
                                ELSE U8(reader, pos + 1 + k)]
  IN IF ~(length > 0) THEN Parsed(Ok(tables), pos)
     ELSE IF ~Avail(reader, pos, 1) THEN Eof(reader)
     ELSE IF precision > 1 THEN Parsed(Format("invalid precision in DQT"), pos + 1)
     ELSE IF index > 3 THEN Parsed(Format("invalid destination identifier in DQT"), pos + 1)
     ELSE IF length < 65 + 64 * precision
       THEN Parsed(Format("invalid length in DQT"), pos + 1)
     ELSE IF ~Avail(reader, pos + 1, size) THEN Eof(reader)
     ELSE IF \E k \in 0..63 : table[k] = 0
       THEN Parsed(Format("quantization table contains element with a zero value"),
                   pos + 1 + size)
     ELSE dqt_tables_at(reader, pos + 1 + size, length - (65 + 64 * precision),
                        tables \cup {index})

parse_dqt_at(reader) ==
  LET rl == read_length_at(reader)
  IN IF ~IsOk(rl.ret) THEN rl ELSE dqt_tables_at(reader, 2, Val(rl.ret), {})

\* the loop of parse_dht over the tables of the segment; tables is the set
\* of the slots <<class, index>> defined so far
RECURSIVE dht_tables_at(_, _, _, _, _, _)
dht_tables_at(reader, pos, length, is_baseline, overflow_checks, tables) ==
  LET byte == U8(reader, pos)
      class == byte \div 16
      index == byte % 16
      counts == [i \in 0..15 |-> U8(reader, pos + 1 + i)]
      size == SumOver(counts, [i \in 1..16 |-> i - 1])
      values == SubSeq(reader, pos + 18, pos + 17 + size)
      table == HuffmanTable_new(counts, values, overflow_checks)
  IN IF ~(length > 17)
       THEN (IF length # 0 THEN Parsed(Format("invalid length in DHT"), pos)
             ELSE Parsed(Ok(tables), pos))
     ELSE IF ~Avail(reader, pos, 1) THEN Eof(reader)
     ELSE IF is_baseline = Some(TRUE) /\ index > 1
       THEN Parsed(Format("a maximum of two huffman tables per class are allowed in baseline"), pos + 1)
     ELSE IF index > 3 THEN Parsed(Format("invalid destination identifier in DHT"), pos + 1)
     ELSE IF ~Avail(reader, pos + 1, 16) THEN Eof(reader)
     ELSE IF size = 0
       THEN Parsed(Format("encountered table with zero length in DHT"), pos + 17)
     ELSE IF size > 256
       THEN Parsed(Format("encountered table with excessive length in DHT"), pos + 17)
     ELSE IF size > length - 17 THEN Parsed(Format("invalid length in DHT"), pos + 17)
     ELSE IF ~Avail(reader, pos + 17, size) THEN Eof(reader)
     ELSE IF class > 1 THEN Parsed(Format("invalid class in DHT"), pos + 17 + size)
     ELSE IF ~IsOk(table) THEN Parsed(table, pos + 17 + size)
     ELSE dht_tables_at(reader, pos + 17 + size, length - (17 + size), is_baseline,
                        overflow_checks, tables \cup {<<class, index>>})

parse_dht_at(reader, is_baseline, overflow_checks) ==
  LET rl == read_length_at(reader)
  IN IF ~IsOk(rl.ret) THEN rl
     ELSE dht_tables_at(reader, 2, Val(rl.ret), is_baseline, overflow_checks, {})

parse_dri_at(reader) ==
  LET rl == read_length_at(reader)
  IN IF ~IsOk(rl.ret) THEN rl
     ELSE IF Val(rl.ret) # 2 THEN Parsed(Format("DRI with invalid length"), 2)
     ELSE IF ~Avail(reader, 2, 2) THEN Eof(reader)
     ELSE Parsed(Ok(U16(reader, 2)), 4)

parse_com_at(reader) ==
  LET rl == read_length_at(reader)
  IN IF ~IsOk(rl.ret) THEN rl
     ELSE IF ~Avail(reader, 2, Val(rl.ret)) THEN Eof(reader)
     ELSE Parsed(Ok(SubSeq(reader, 3, 2 + Val(rl.ret))), 2 + Val(rl.ret))

\* the bytes of JFIF\0, AVI1\0 and Adobe\0
JFIF_sig == <<74, 70, 73, 70, 0>>
AVI1_sig == <<65, 86, 73, 49, 0>>
Adobe_sig == <<65, 100, 111, 98, 101, 0>>

parse_app_at(reader, n) ==
  LET rl == read_length_at(reader)
      length == Val(rl.ret)
      wanted == IF n = 0 /\ length >= 5 THEN 5
                ELSE IF n = 14 /\ length >= 12 THEN 12
                ELSE 0
      buffer == SubSeq(reader, 3, 2 + wanted)
      skipped == skip_bytes(reader, 2 + wanted, length - wanted)
      result == IF wanted = 5 /\ buffer = JFIF_sig THEN Some([app |-> "Jfif"])
                ELSE IF wanted = 5 /\ buffer = AVI1_sig THEN Some([app |-> "Avi1"])
                ELSE IF wanted = 12 /\ SubSeq(buffer, 1, 6) = Adobe_sig
                  THEN Some([app |-> "Adobe", color_transform |-> buffer[12]])
                ELSE None
  IN IF ~IsOk(rl.ret) THEN rl
     ELSE IF ~Avail(reader, 2, wanted) THEN Eof(reader)
     ELSE IF wanted = 12 /\ SubSeq(buffer, 1, 6) = Adobe_sig /\ buffer[12] > 2
       THEN Parsed(Format("invalid color transform in adobe app segment"), 14)
     ELSE IF ~IsOk(skipped.ret) THEN skipped
     ELSE Parsed(Ok(result), skipped.pos)


(***************************************************************************)
(* One segment in the reader: a length field, a payload and what follows   *)
(* the segment.  The length field is that of the payload, one less, one    *)
(* more, or 0, 1 or 2; after the payload come the two bytes of the next    *)
(* marker, or nothing.                                                     *)
(***************************************************************************)
MaxComBytes == 3
Ones(n) == [k \in 1..n |-> 1]
SegFrame == <<[identifier |-> 1, h |-> 2, v |-> 2], [identifier |-> 2, h |-> 1, v |-> 1]>>

SofPayloads ==
  {<<precision, 0, 8>> \o width \o components :
     precision \in {8, 12}, width \in {<<0, 0>>, <<0, 9>>},
     components \in {<<1, 1, 17, 0>>, <<2, 1, 34, 0, 2, 17, 1>>, <<2, 1, 17, 0, 1, 17, 0>>,
                     <<1, 1, 81, 0>>, <<0>>}}
SosPayloads ==
  {components \o band :
     components \in {<<1, 1, 0>>, <<1, 2, 17>>, <<2, 1, 0, 2, 17>>, <<2, 2, 0, 1, 0>>,
                     <<1, 3, 0>>, <<0>>},
     band \in {<<0, 63, 0>>, <<1, 5, 0>>, <<0, 0, 1>>}}
DqtPayloads ==
  {<<0>> \o Ones(64), <<1>> \o Ones(128), <<0>> \o Ones(64) \o <<3>> \o Ones(64),
   <<2>> \o Ones(63) \o <<0>>, <<32>> \o Ones(64), <<4>> \o Ones(64), <<>>}
DhtTable(byte, counts, values) ==
  <<byte>> \o [i \in 1..16 |-> IF i <= Len(counts) THEN counts[i] ELSE 0] \o values
DhtPayloads ==
  {DhtTable(0, <<1>>, <<0>>), DhtTable(17, <<0, 2, 1>>, <<1, 2, 3>>),
   DhtTable(0, <<1>>, <<0>>) \o DhtTable(19, <<1, 1>>, <<0, 1>>),
   DhtTable(32, <<1>>, <<0>>), DhtTable(4, <<1>>, <<0>>), DhtTable(2, <<>>, <<>>),
   DhtTable(1, <<3>>, <<0, 1, 2>>), <<>>}
DriPayloads == {<<0, 4>>, <<0>>, <<0, 4, 0>>}
ComPayloads == UNION {[1..n -> {33}] : n \in 0..MaxComBytes}
AppPayloads ==
  {JFIF_sig \o <<1, 2>>, AVI1_sig, <<74, 70>>, <<>>,
   Adobe_sig \o <<100, 0, 0, 0, 0, 1>>, Adobe_sig \o <<100, 0, 0, 0, 0, 3>>,
   Adobe_sig \o <<100, 0, 0, 0, 0, 2, 7, 7>>}

SegKinds ==
  ({"SOF"} \X {0, 2, 3} \X SofPayloads) \cup ({"SOS"} \X {0, 2} \X SosPayloads)
  \cup ({"DQT"} \X {0} \X DqtPayloads) \cup ({"DHT"} \X {0, 2} \X DhtPayloads)
  \cup ({"DRI"} \X {0} \X DriPayloads) \cup ({"COM"} \X {0} \X ComPayloads)
  \cup ({"APP"} \X {0, 1, 14} \X AppPayloads)

SegLengths(payload) ==
  {0, 1, 2} \cup {lf \in {Len(payload) + 1, Len(payload) + 2, Len(payload) + 3} : lf >= 0}

SegInit ==
  /\ \E seg \in SegKinds, follows \in {<<>>, <<255, 217>>}, overflow_checks \in BOOLEAN :
       \E lf \in SegLengths(seg[3]) :
         dec = [kind |-> seg[1], n |-> seg[2], lf |-> lf, overflow_checks |-> overflow_checks,
                reader |-> <<lf \div 256, lf % 256>> \o seg[3] \o follows]
  /\ loc = [pc |-> "marker", pos |-> 0]
  /\ res = NoResult
  /\ hist = <<>>
  /\ ref = None

SegParsed(kind, parsed) ==
  /\ loc.pc = "marker"
  /\ dec.kind = kind
  /\ loc' = [pc |-> "parsed", pos |-> parsed.pos]
  /\ res' = [op |-> kind, r |-> parsed.ret]
  /\ UNCHANGED <<dec, hist, ref>>

SegSof == SegParsed("SOF", parse_sof_at(dec.reader, dec.n))
SegSos ==
  SegParsed("SOS", parse_sos_at(dec.reader, SegFrame, dec.n = 0,
                                sof_coding_process(dec.n)))
SegDqt == SegParsed("DQT", parse_dqt_at(dec.reader))
SegDht ==
  SegParsed("DHT", parse_dht_at(dec.reader, Some(dec.n = 0), dec.overflow_checks))
SegDri == SegParsed("DRI", parse_dri_at(dec.reader))
SegCom == SegParsed("COM", parse_com_at(dec.reader))
SegApp == SegParsed("APP", parse_app_at(dec.reader, dec.n))

SegNext == SegSof \/ SegSos \/ SegDqt \/ SegDht \/ SegDri \/ SegCom \/ SegApp

SpecSegment == SegInit /\ [][SegNext]_vars

\* C24: every segment parser (SOF, SOS, DQT, DHT, DRI, COM, APPn) that
\* returns Ok has consumed exactly length - 2 payload bytes after the two
\* bytes of the length field, so that the reader is on the first byte after
\* the segment; a length field below 2 is a Format error.
C24_OkConsumesSegment ==
  loc.pc = "parsed" =>
    /\ IsOk(res.r) => (dec.lf >= 2 /\ loc.pos = 2 + (dec.lf - 2))
    /\ dec.lf < 2 => res.r.kind = "Format"

\* a DHT segment of two tables is parsed, and the reader is on the marker
\* that follows it
C24_TwoTablesConsumed ==
  /\ loc.pc = "parsed" /\ dec.kind = "DHT" /\ IsOk(res.r)
  /\ Cardinality(Val(res.r)) = 2
  /\ loc.pos = dec.lf
  /\ Len(dec.reader) = loc.pos + 2
  /\ SubSeq(dec.reader, loc.pos + 1, loc.pos + 2) = <<255, 217>>

\* an Adobe segment longer than the twelve bytes read: the rest is skipped
C24_RestOfAppSkipped ==
  /\ loc.pc = "parsed" /\ dec.kind = "APP" /\ dec.n = 14 /\ IsOk(res.r)
  /\ IsSome(Val(res.r))
  /\ dec.lf = 16 /\ loc.pos = 16


(***************************************************************************)
(* DHT segments in the marker loop.  A segment defines one or two tables,  *)
(* told apart by their id; some segments define a slot twice, a slot a     *)
(* baseline frame does not have, a table HuffmanTable::new rejects after a *)
(* good one, or have a wrong length or no end.                             *)
(***************************************************************************)
MaxDhtSegments == 4
DhtEntry(class, index, id, bad) ==
  [class |-> class, index |-> index, size |-> 1, bad |-> bad, id |-> id]
DhtOf(entries) == [lf |-> 2 + 18 * Len(entries), eof |-> FALSE, entries |-> entries]
DhtSegments ==
  {DhtSegment,
   DhtOf(<<DhtEntry(0, 0, 2, FALSE)>>),
   DhtOf(<<DhtEntry(1, 1, 2, FALSE), DhtEntry(1, 1, 3, FALSE)>>),
   DhtOf(<<DhtEntry(0, 2, 2, FALSE)>>),
   DhtOf(<<DhtEntry(0, 1, 2, FALSE), DhtEntry(1, 0, 3, TRUE)>>),
   [DhtOf(<<DhtEntry(1, 0, 2, FALSE)>>) EXCEPT !.lf = 21],
   Truncated(DhtOf(<<DhtEntry(1, 0, 2, FALSE)>>))}

DhtInit ==
  /\ dec = Decoder_new
  /\ loc = IdleLoc
  /\ res = NoResult
  /\ hist = [InitHist EXCEPT !.budget = MaxDhtSegments]
  /\ ref = None

DhtNext ==
  \/ Decode("SOI")
  \/ \E n \in {0, 2} : MarkerSOF(SofSegment(n, 8, 1, 1, <<1>>))
  \/ \E t \in DhtSegments : MarkerDHT(t)
  \/ MarkerEOI

SpecDht == DhtInit /\ [][DhtNext]_vars

\* the slots a segment defines, and the table it leaves in one of them
DhtDefines(t, class, index) ==
  \E k \in 1..Len(t.entries) : t.entries[k].class = class /\ t.entries[k].index = index
DhtLast(t, class, index) ==
  LET k == MaxOf({j \in 1..Len(t.entries) :
                    t.entries[j].class = class /\ t.entries[j].index = index})
  IN Some(t.entries[k].id)
DhtFailed == hist'.fresh /\ ~IsOk(res'.r)

\* C25: processing a DHT segment replaces exactly the (class, destination)
\* slots that the segment defines and leaves every other DC and AC slot
\* with the table it held; a DHT segment that fails to parse changes no slot.
C25_DhtReplacesDefinedSlots ==
  [][\A t \in DhtSegments :
       MarkerDHT(t) =>
         \A index \in 0..3 :
           /\ dec'.dc_huffman_tables[index] =
                IF ~DhtFailed /\ DhtDefines(t, 0, index) THEN DhtLast(t, 0, index)
                ELSE dec.dc_huffman_tables[index]
           /\ dec'.ac_huffman_tables[index] =
                IF ~DhtFailed /\ DhtDefines(t, 1, index) THEN DhtLast(t, 1, index)
                ELSE dec.ac_huffman_tables[index]]_vars

\* a second segment has replaced the DC table 0 and left the AC table 0
C25_OneSlotReplaced ==
  /\ loc.pc = "loop"
  /\ dec.dc_huffman_tables[0] = Some(2)
  /\ dec.ac_huffman_tables[0] = Some(1)
  /\ dec.ac_huffman_tables[1] = Some(3)

\* a segment whose second table is rejected has ended the call, and the
\* slot of its first table is as it was
C25_FailedSegmentChangedNothing ==
  /\ hist.fresh /\ res.r = Format("bad huffman code length")
  /\ dec.dc_huffman_tables[0] = Some(1)
  /\ dec.dc_huffman_tables[1] = None


(***************************************************************************)
(* Frames of height 0 and of width 0 in the marker loop: a baseline or a   *)
(* lossless frame of one component, its tables and its scans.              *)
(***************************************************************************)
MaxHeightSegments == 5
HeightSof ==
  {SofSegment(n, 8, height, width, <<1>>) : n \in {0, 3}, height \in {0, 1}, width \in {0, 1}}

HeightInit ==
  /\ dec = Decoder_new
  /\ loc = IdleLoc
  /\ res = NoResult
  /\ hist = [InitHist EXCEPT !.budget = MaxHeightSegments]
  /\ ref = None

HeightNext ==
  \/ Decode("SOI")
  \/ \E t \in HeightSof : MarkerSOF(t)
  \/ MarkerDQT(DqtSegment(0))
  \/ MarkerDHT(DhtSegment)
  \/ \E e \in {Entropy("Ok", None), Entropy("Ok", Some(EOI))},
        t \in {SosSegment(<<1>>, 0, 63, 0, 0), SosSegment(<<1>>, 1, 0, 0, 0)} :
       MarkerSOS(t, e)
  \/ MarkerEOI

SpecHeight == HeightInit /\ [][HeightNext]_vars

ScanEntered == IsSome(hist.last_scan)

\* C26: every stored frame has width > 0, and a frame whose header declares
\* the height 0 never reaches scan decoding: decode_scan and
\* decode_scan_lossless are never entered while the image height is 0.
C26_HeightZeroNeverScanned ==
  /\ IsSome(dec.frame) => Unwrap(dec.frame).image_size.width > 0
  /\ ScanEntered => Unwrap(dec.frame).image_size.height > 0

\* What holds: every stored frame has width > 0.
C26_StoredFrameHasWidth ==
  IsSome(dec.frame) => Unwrap(dec.frame).image_size.width > 0

\* a scan of a sequential frame of height 0 has been handed to decode_scan
C26_ScanOfHeightZero ==
  /\ ScanEntered
  /\ Unwrap(dec.frame).image_size.height = 0
  /\ Unwrap(dec.frame).coding_process = "DctSequential"

\* the same for decode_scan_lossless
C26_LosslessScanOfHeightZero ==
  /\ ScanEntered
  /\ Unwrap(dec.frame).image_size.height = 0
  /\ Unwrap(dec.frame).coding_process = "Lossless"


(***************************************************************************)
(* decoder.rs: decode_block_successive_approximation and refine_non_zeroes *)
(* on a reader of bytes.  writes lists, for every coefficient that an      *)
(* s = 1 code introduces, its position and the coefficient that was there  *)
(* immediately before the write.                                           *)
(***************************************************************************)
RefineOf(huffman, reader, coefficients, eob_run) ==
  [huffman |-> huffman, reader |-> reader, coefficients |-> coefficients,
   eob_run |-> eob_run, writes |-> <<>>, ret |-> Ok(0)]

\* coefficient & bit == 0, on the sixteen bits of the coefficient
bit_clear(coefficient, bit) == ((coefficient % 65536) \div bit) % 2 = 0

RECURSIVE refine_non_zeroes(_, _, _, _, _, _)
refine_non_zeroes(b, i, end, zero_run_length, bit, overflow_checks) ==
  LET index == UNZIGZAG[i + 1] + 1
      coefficient == b.coefficients[index]
      refined == IF coefficient > 0 THEN coefficient + bit ELSE coefficient - bit
      \* the coefficient is not zero: its correction bit is read
      correct(got) ==
        IF ~IsOk(got.ret) THEN Left(b, got, got.ret)
        ELSE IF BitsValue(Val(got.ret)) = 1 /\ bit_clear(coefficient, bit)
          THEN (IF refined > 32767 \/ refined < -32768
                  THEN Left(b, got, Format("Coefficient overflow"))
                ELSE refine_non_zeroes(
                       [Left(b, got, Ok(0)) EXCEPT !.coefficients[index] = refined],
                       i + 1, end, zero_run_length, bit, overflow_checks))
        ELSE refine_non_zeroes(Left(b, got, Ok(0)), i + 1, end, zero_run_length, bit,
                               overflow_checks)
  IN IF ~(i < end) THEN [b EXCEPT !.ret = Ok(end - 1)]
     ELSE IF coefficient = 0 /\ zero_run_length = 0 THEN [b EXCEPT !.ret = Ok(i)]
     ELSE IF coefficient = 0
       THEN refine_non_zeroes(b, i + 1, end, zero_run_length - 1, bit, overflow_checks)
     ELSE correct(receive_bits(b.huffman, b.reader, 1, overflow_checks))

\* What a code of the loop asks for: the block after the code and its extra
\* bits, the run of zeroes to pass and the value to write after it.
Coded(b, zero_run_length, value) ==
  [b |-> b, zero_run_length |-> zero_run_length, value |-> value]

\* the loop of Section G.1.2.3 from index on
RECURSIVE successive_approximation_loop(_, _, _, _, _, _)
successive_approximation_loop(b, index, ac_table, end, bit, overflow_checks) ==
  LET eob(r, run) ==
        IF ~IsOk(run.ret) THEN [Left(b, run, run.ret) EXCEPT !.eob_run = 2 ^ r - 1]
        ELSE [Left(b, run, Ok(0)) EXCEPT !.eob_run = 2 ^ r - 1 + BitsValue(Val(run.ret))]
      signed(sign) ==
        IF ~IsOk(sign.ret) THEN Coded(Left(b, sign, sign.ret), 1, 0)
        ELSE Coded(Left(b, sign, Ok(0)), 1,
                   IF BitsValue(Val(sign.ret)) = 1 THEN bit ELSE 0 - bit)
      code(byte) ==
        LET r == Val(byte.ret) \div 16
            s == Val(byte.ret) % 16
            decoded == Left(b, byte, Ok(0))
        IN IF s = 0 /\ r = 15 THEN Coded(decoded, 15, 0)
           ELSE IF s = 0 /\ r = 0 THEN Coded([decoded EXCEPT !.eob_run = 0], 64, 0)
           ELSE IF s = 0
             THEN Coded(eob(r, receive_bits(byte.huffman, byte.reader, r, overflow_checks)),
                        64, 0)
           ELSE IF s = 1
             THEN [signed(receive_bits(byte.huffman, byte.reader, 1, overflow_checks))
                     EXCEPT !.zero_run_length = r]
           ELSE Coded([decoded EXCEPT !.ret = Format("unexpected huffman code")], r, 0)
      write(refined, value) ==
        LET at == UNZIGZAG[Val(refined.ret) + 1] + 1
        IN IF ~IsOk(refined.ret) THEN refined
           ELSE successive_approximation_loop(
                  IF value = 0 THEN [refined EXCEPT !.ret = Ok(0)]
                  ELSE [refined EXCEPT
                          !.ret = Ok(0),
                          !.coefficients[at] = value,
                          !.writes = Append(@, [index |-> at - 1,
                                                was |-> refined.coefficients[at]])],
                  Val(refined.ret) + 1, ac_table, end, bit, overflow_checks)
      refine(coded) ==
        IF ~IsOk(coded.b.ret) THEN coded.b
        ELSE write(refine_non_zeroes(coded.b, index, end, coded.zero_run_length, bit,
                                     overflow_checks),
                   coded.value)
      decoded_to(byte) ==
        IF ~IsOk(byte.ret) THEN Left(b, byte, byte.ret) ELSE refine(code(byte))
  IN IF ~(index < end) THEN b
     ELSE decoded_to(decode_with(b.huffman, b.reader, ac_table))

bitor(coefficient, bit) == IF bit_clear(coefficient, bit) THEN as_i16(coefficient + bit) ELSE coefficient

decode_block_successive_approximation(b, ac_table, spectral_selection, al, overflow_checks) ==
  LET bit == 2 ^ al
      dc(first) ==
        IF ~IsOk(first.ret) THEN Left(b, first, first.ret)
        ELSE IF BitsValue(Val(first.ret)) = 1
          THEN [Left(b, first, Ok(0)) EXCEPT !.coefficients[1] = bitor(@, bit)]
        ELSE Left(b, first, Ok(0))
      in_run(run) == IF IsOk(run.ret) THEN [run EXCEPT !.ret = Ok(0)] ELSE run
  IN IF spectral_selection.start = 0
       THEN dc(receive_bits(b.huffman, b.reader, 1, overflow_checks))
     ELSE IF b.eob_run > 0
       THEN in_run(refine_non_zeroes([b EXCEPT !.eob_run = @ - 1],
                                     spectral_selection.start, spectral_selection.end,
                                     64, bit, overflow_checks))
     ELSE successive_approximation_loop(b, spectral_selection.start, ac_table,
                                        spectral_selection.end, bit, overflow_checks)

(***************************************************************************)
(* The blocks of one refinement scan (Ah = Al + 1).  Every block holds     *)
(* what earlier scans left in it: coefficients that are 0 or plus or minus *)
(* twice the bit of the scan.                                              *)
(***************************************************************************)
MaxRefineBytes == 2
MaxRefineBlocks == 2
RefineBands == {Band(1, 3, 0), Band(1, 4, 1), Band(0, 1, 0)}
RefineEarlier(band) ==
  LET v == 2 * 2 ^ band.al
  IN {[p \in 1..64 |-> IF p = 1 THEN 2 * v
                       ELSE IF p = 2 THEN a ELSE IF p = 9 THEN c ELSE IF p = 17 THEN e
                       ELSE 0] :
        a \in {0, v, 0 - v}, c \in {0, v, 0 - v}, e \in {0, v}}

RefineInit ==
  /\ \E table \in BlockTables :
       LET built == Val(HuffmanTable_new(table.bits, table.values, FALSE))
       IN \E band \in RefineBands, end \in BlockEnds,
             bytes \in [1..MaxRefineBytes -> BlockBytes] :
            \E earlier \in RefineEarlier(band) :
              /\ dec = [table |-> table, built |-> built, band |-> band,
                        earlier |-> earlier, overflow_checks |-> FALSE]
              /\ loc = [huffman |-> HuffmanDecoder_new,
                        reader |-> StuffedBytes(bytes) \o end,
                        coefficients |-> earlier, eob_run |-> 0, blocks |-> 0,
                        writes |-> <<>>]
  /\ res = NoResult
  /\ hist = <<>>
  /\ ref = None

RefineBlock ==
  /\ loc.blocks < MaxRefineBlocks
  /\ res = NoResult \/ IsOk(res.r)
  /\ LET b == RefineOf(loc.huffman, loc.reader, dec.earlier, loc.eob_run)
         done == decode_block_successive_approximation(
                   b, dec.built, dec.band.spectral_selection, dec.band.al,
                   dec.overflow_checks)
     IN /\ loc' = [huffman |-> done.huffman, reader |-> done.reader,
                   coefficients |-> done.coefficients, eob_run |-> done.eob_run,
                   blocks |-> loc.blocks + 1, writes |-> done.writes]
        /\ res' = [op |-> "decode_block_successive_approximation", r |-> done.ret]
  /\ UNCHANGED <<dec, hist, ref>>

RefineNext == RefineBlock

SpecRefine == RefineInit /\ [][RefineNext]_vars

AcRefinement == dec.band.spectral_selection.start > 0
Sign(x) == IF x > 0 THEN 1 ELSE IF x < 0 THEN -1 ELSE 0

\* C27: in an AC refinement scan a newly introduced coefficient (+bit or
\* -bit from an s = 1 code) is only ever written to a position whose
\* coefficient was zero immediately before the write; the coefficients that
\* are already non-zero are changed only by adding or subtracting the bit of
\* the scan, which never changes their sign.
C27_NewCoefficientOnZero ==
  (AcRefinement /\ loc.blocks > 0) =>
    /\ \A k \in 1..Len(loc.writes) : loc.writes[k].was = 0
    /\ \A p \in 1..64 :
         dec.earlier[p] # 0 =>
           /\ Sign(loc.coefficients[p]) = Sign(dec.earlier[p])
           /\ loc.coefficients[p] \in
                {dec.earlier[p], dec.earlier[p] + Sign(dec.earlier[p]) * 2 ^ dec.band.al}

\* What holds: a write is on a zero coefficient unless the zero run of the
\* code passed the end of the band, and then it is on the last coefficient
\* of the band.
C27_NewCoefficientOnZeroOrLast ==
  (AcRefinement /\ loc.blocks > 0) =>
    /\ \A k \in 1..Len(loc.writes) :
         \/ loc.writes[k].was = 0
         \/ loc.writes[k].index = UNZIGZAG[dec.band.spectral_selection.end]
    /\ \A p \in 1..64 :
         (dec.earlier[p] # 0 /\ \A k \in 1..Len(loc.writes) : loc.writes[k].index # p - 1) =>
           /\ Sign(loc.coefficients[p]) = Sign(dec.earlier[p])
           /\ loc.coefficients[p] \in
                {dec.earlier[p], dec.earlier[p] + Sign(dec.earlier[p]) * 2 ^ dec.band.al}

\* the last coefficient of the band was 2 and an s = 1 code has made it -1
C27_NonZeroOverwritten ==
  /\ AcRefinement /\ loc.blocks = 1 /\ IsOk(res.r)
  /\ dec.band = Band(1, 3, 0)
  /\ dec.earlier[9] = 2
  /\ loc.coefficients[9] = -1

\* a new coefficient on a zero, next to a coefficient that was refined
C27_NewCoefficientWritten ==
  /\ AcRefinement /\ loc.blocks = 1 /\ IsOk(res.r)
  /\ \E k \in 1..Len(loc.writes) : loc.writes[k].was = 0
  /\ \E p \in 1..64 : dec.earlier[p] # 0 /\ loc.coefficients[p] # dec.earlier[p]


(***************************************************************************)
(* The scans of a lossless frame of three components: one scan for all of  *)
(* them, or scans for one or two of them.  A plane of the model keeps the  *)
(* index of the component it was decoded for.                              *)
(***************************************************************************)
MaxPlaneSegments == 5
PlaneScans == {<<1, 2, 3>>, <<1>>, <<2>>, <<3>>, <<2, 3>>}

PlaneInit ==
  /\ dec = Decoder_new
  /\ loc = IdleLoc
  /\ res = NoResult
  /\ hist = [InitHist EXCEPT !.budget = MaxPlaneSegments]
  /\ ref = None

PlaneNext ==
  \/ Decode("SOI")
  \/ MarkerSOF(SofSegment(3, 8, 1, 1, <<1, 2, 3>>))
  \/ MarkerDHT(DhtSegment)
  \/ \E ids \in PlaneScans : MarkerSOS(SosSegment(ids, 1, 0, 0, 0), Entropy("Ok", None))
  \/ MarkerEOI

SpecPlane == PlaneInit /\ [][PlaneNext]_vars

PlaneStored(i) == i \in 1..Len(loc.planes_u16) /\ ~is_empty(loc.planes_u16[i])

\* C28: in lossless decoding the plane decoded for a component of a scan is
\* stored in the output slot of that component's index in the frame header,
\* for every composition of the scan, also for a scan of a single component
\* other than the first, and a plane is never overwritten by the plane of a
\* different component.
C28_PlaneInSlotOfComponent ==
  \A i \in 1..Len(loc.planes_u16) : PlaneStored(i) => loc.planes_u16[i].comp = i

\* What holds: the plane of the k-th component of a scan is stored in the
\* slot k, which is the component's slot when the scan begins with the
\* frame's first components.
C28_PlaneInSlotOfScanPosition ==
  \A i \in 1..Len(loc.planes_u16) : PlaneStored(i) => loc.planes_u16[i].comp >= i

\* a scan of the component 2 alone has left the plane of the component 2
\* in the slot 1, and the slot 2 is empty
C28_PlaneOfSecondInFirstSlot ==
  /\ loc.pc = "loop"
  /\ hist.scans # {}
  /\ PlaneStored(1) /\ loc.planes_u16[1].comp = 2
  /\ ~PlaneStored(2)

\* a scan of all three components fills the three slots in order
C28_ThreePlanesInOrder ==
  /\ loc.pc = "loop"
  /\ \A i \in 1..3 : PlaneStored(i) /\ loc.planes_u16[i].comp = i


(***************************************************************************)
(* decoder.rs: the calls decode_scan and decode_planes make on the worker. *)
(* A call is its name, the worker index (counted from 0 as in the code),   *)
(* the row data of a start and the coefficients of an append_row with      *)
(* their length.  "slice" stands for the row slice of self.coefficients    *)
(* that is out of range, which panics before the worker is called.         *)
(***************************************************************************)
WorkerCall(op, index, row_data, len, data) ==
  [op |-> op, index |-> index, row_data |-> row_data, len |-> len, data |-> data]

NoRowData == RowData(0, None, None)

coefficients_per_mcu_row(component) ==
  component.block_size.width * component.vertical_sampling_factor * 64

\* The append_row of MCU row mcu_y (of worker row worker_mcu_y) for the
\* component at index, whose coefficients the frame keeps when kept >= 0.
row_call(index, component, worker_mcu_y, kept, tag) ==
  LET offset == worker_mcu_y * coefficients_per_mcu_row(component)
  IN IF kept >= 0 /\ offset + coefficients_per_mcu_row(component) > kept
       THEN WorkerCall("slice", index, NoRowData, 0, tag)
     ELSE WorkerCall("append_row", index, NoRowData,
                     coefficients_per_mcu_row(component), tag)

TableErrors ==
  {Format("use of unset quantization table"),
   Format("scan makes use of unset dc huffman table"),
   Format("scan makes use of unset ac huffman table")}

decode_scan_calls_uncollected(d, frame, scan, finished, e) ==
  LET n == Len(scan.component_indices)
      components == [k \in 1..n |-> frame.components[scan.component_indices[k]]]
      positions == SelectSeq([k \in 1..n |-> k], LAMBDA k : k \in finished)
      starts == [p \in 1..Len(positions) |->
                   LET k == positions[p]
                   IN WorkerCall("start", k - 1,
                        RowData(k - 1, components[k],
                                Unwrap(d.quantization_tables[
                                         components[k].quantization_table_index])),
                        0, 0)]
  IN IF decode_scan(d, frame, scan, finished, e).ret \in TableErrors THEN <<>>
     ELSE starts

decode_scan_calls(d, frame, scan, finished, e) ==
  LET n == Len(scan.component_indices)
      components == [k \in 1..n |-> frame.components[scan.component_indices[k]]]
      is_progressive == frame.coding_process = "DctProgressive"
      is_interleaved == n > 1
      max_mcu_y == IF is_interleaved THEN frame.mcu_size.height
                   ELSE components[1].block_size.height
      positions == SelectSeq([k \in 1..n |-> k], LAMBDA k : k \in finished)
      starts == [p \in 1..Len(positions) |->
                   LET k == positions[p]
                   IN WorkerCall("start", k - 1,
                        RowData(k - 1, components[k],
                                Unwrap(d.quantization_tables[
                                         components[k].quantization_table_index])),
                        0, 0)]
      \* the MCU rows the loop decodes to their end
      decoded(mcu_y) ==
        /\ mcu_y * 8 < frame.image_size.height
        /\ e.status = "Ok" \/ mcu_y < e.rows
      sent(mcu_y, k) ==
        /\ k \in finished
        /\ ~(/\ ~is_interleaved
             /\ (mcu_y + 1) * 8 < frame.image_size.height
             /\ (mcu_y + 1) % components[k].vertical_sampling_factor > 0)
      pairs == SelectSeq([p \in 1..(max_mcu_y * n) |->
                            [mcu_y |-> (p - 1) \div n, k |-> ((p - 1) % n) + 1]],
                         LAMBDA at : decoded(at.mcu_y) /\ sent(at.mcu_y, at.k))
      rows == [p \in 1..Len(pairs) |->
                 LET k == pairs[p].k
                     mcu_y == pairs[p].mcu_y
                     worker_mcu_y ==
                       IF is_interleaved THEN mcu_y
                       ELSE mcu_y \div components[k].vertical_sampling_factor
                 IN row_call(k - 1, components[k], worker_mcu_y,
                             IF is_progressive
                               THEN d.coefficients[scan.component_indices[k]].len
                               ELSE -1,
                             e.tag)]
      results == [p \in 1..Len(positions) |->
                    WorkerCall("get_result", positions[p] - 1, NoRowData, 0, 0)]
  IN IF decode_scan(d, frame, scan, finished, e).ret \in TableErrors THEN <<>>
     ELSE IF e.status # "Ok" THEN starts \o rows
     ELSE starts \o rows \o results

\* The calls of the SOS branch: those of decode_scan when the branch
\* reaches it.
on_SOS_calls(d, l, t, e) ==
  LET frame == Unwrap(d.frame)
      parsed == parse_sos(t, frame)
      scan == Val(parsed)
      step == on_SOS(d, l, t, e)
  IN IF IsNone(d.frame) THEN <<>>
     ELSE IF ~IsOk(parsed) \/ frame.coding_process = "Lossless" THEN <<>>
     ELSE decode_scan_calls(step.dec, frame, scan,
                            finished_in_scan(d.coefficients_finished, scan), e)

RECURSIVE decode_planes_calls_from(_, _, _)
decode_planes_calls_from(d, frame, i) ==
  LET component == frame.components[i]
      quantization_table == d.quantization_tables[component.quantization_table_index]
      rows == [p \in 1..frame.mcu_size.height |->
                 row_call(i - 1, component, p - 1, d.coefficients[i].len, 0)]
  IN IF i > Len(frame.components) THEN <<>>
     ELSE IF d.coefficients_finished[i] = AllBits \/ IsNone(quantization_table)
       THEN decode_planes_calls_from(d, frame, i + 1)
     ELSE <<WorkerCall("start", i - 1,
                       RowData(i - 1, component, Unwrap(quantization_table)), 0, 0)>>
          \o rows
          \o <<WorkerCall("get_result", i - 1, NoRowData, 0, 0)>>
          \o decode_planes_calls_from(d, frame, i + 1)

decode_planes_calls(d) ==
  LET frame == Unwrap(d.frame)
  IN IF IsNone(d.frame) THEN <<>>
     ELSE IF exceeds_limit(d, frame) THEN <<>>
     ELSE IF frame.coding_process = "DctProgressive"
             /\ Len(d.coefficients) = Len(frame.components)
       THEN decode_planes_calls_from(d, frame, 1)
     ELSE <<>>

(***************************************************************************)
(* worker/immediate.rs: append_row_immediate with the length of its data,  *)
(* and the worker's answer to a call.                                      *)
(***************************************************************************)
append_row_asserted(w, index, len, data) ==
  IF IsNone(w.components[index])
    THEN Done(w, Panic("called Option::unwrap() on a None value"))
  ELSE LET component == Unwrap(w.components[index])
           block_count == component.block_size.width
                            * component.vertical_sampling_factor
       IN IF len # block_count * 64
            THEN Done(w, Panic("assertion failed: data.len() == block_count * 64"))
          ELSE append_row_immediate(w, index, data)

worker_call(w, call) ==
  CASE call.op = "start" -> immediate_start(w, call.row_data)
    [] call.op = "append_row" ->
         append_row_asserted(w, call.index, call.len, call.data)
    [] call.op = "get_result" -> get_result_immediate(w, call.index)
    [] OTHER -> Done(w, Panic("range end index out of range for slice"))

\* The calls one after the other, up to the first that does not return.
RECURSIVE worker_run(_, _, _)
worker_run(w, calls, i) ==
  IF i > Len(calls) THEN [w |-> w, ret |-> Ok(Unit), done |-> Len(calls)]
  ELSE LET step == worker_call(w, calls[i])
       IN IF ~IsOk(step.ret) THEN [w |-> step.w, ret |-> step.ret, done |-> i]
          ELSE worker_run(step.w, calls, i + 1)

(***************************************************************************)
(* The worker of one decode(): ref holds the immediate worker of the call, *)
(* the calls made on it so far and the answer to the last of them.  The    *)
(* frames are a sequential one whose first component has two block rows    *)
(* per MCU row and a progressive one; the scans are interleaved and not,   *)
(* final and not, and their data may end in an error after some MCU rows.  *)
(***************************************************************************)
MaxCallSegments == 6
MaxErrorRow == 2

CallSof(n, height, v) ==
  [n |-> n, lf |-> 17, precision |-> 8, height |-> height, width |-> 8,
   comps |-> <<[id |-> 1, h |-> 1, v |-> v, tq |-> 0],
               [id |-> 2, h |-> 1, v |-> 1, tq |-> 0],
               [id |-> 3, h |-> 1, v |-> 1, tq |-> 0]>>,
   eof |-> FALSE]
CallFrames == {CallSof(0, 8, 2), CallSof(0, 24, 2), CallSof(2, 8, 1)}

CallScans ==
  {SosSegment(<<1, 2, 3>>, 0, 63, 0, 0), SosSegment(<<1>>, 0, 63, 0, 0),
   SosSegment(<<2>>, 0, 63, 0, 0), SosSegment(<<1, 2, 3>>, 0, 0, 0, 0),
   SosSegment(<<1>>, 1, 63, 0, 0), SosSegment(<<2>>, 1, 63, 0, 1)}

CallEntropy ==
  {[status |-> "Ok", marker |-> None, tag |-> 1, rows |-> 0]}
    \cup {[status |-> "Format", marker |-> None, tag |-> 1, rows |-> r] :
            r \in 0..MaxErrorRow}

FreshWorker == [w |-> ImmediateWorker_default, calls |-> <<>>, ret |-> Ok(Unit)]

AfterCalls(calls) ==
  LET run == worker_run(ref.w, calls, 1)
  IN [w |-> run.w,
      calls |-> ref.calls \o [p \in 1..run.done |->
                                [op |-> calls[p].op, index |-> calls[p].index]],
      ret |-> run.ret]

CallsInit ==
  /\ dec = Decoder_new
  /\ loc = IdleLoc
  /\ res = NoResult
  /\ hist = [InitHist EXCEPT !.budget = MaxCallSegments]
  /\ ref = FreshWorker

CallsDecode ==
  /\ loc.pc = "idle"
  /\ hist.calls < MaxCalls
  /\ Apply(decode_internal_entry(dec, FALSE, "SOI"), FALSE, SOI, TRUE)
  /\ ref' = FreshWorker

CallsSOS(t, e) ==
  /\ Reads(SOS)
  /\ Apply(on_SOS(dec, Taken, t, e), loc.stop_after_metadata, SOS, FALSE)
  /\ ref' = AfterCalls(on_SOS_calls(dec, Taken, t, e))

CallsEOI ==
  /\ Reads(EOI)
  /\ Apply(on_EOI(dec, Taken), loc.stop_after_metadata, EOI, FALSE)
  /\ ref' = AfterCalls(decode_planes_calls(dec))

CallsNext ==
  \/ CallsDecode
  \/ \E t \in CallFrames : MarkerSOF(t)
  \/ MarkerDQT(DqtSegment(0))
  \/ MarkerDHT(DhtSegment)
  \/ \E t \in CallScans, e \in CallEntropy : CallsSOS(t, e)
  \/ CallsEOI

SpecCalls == CallsInit /\ [][CallsNext]_vars

\* The indices started and not yet collected after the calls, or OutOfOrder
\* (an index no worker has) when a call breaks the order start, append_row, get_result.
OutOfOrder == {MAX_COMPONENTS}

RECURSIVE Open(_, _, _)
Open(calls, i, open) ==
  IF i > Len(calls) THEN open
  ELSE IF calls[i].op = "slice" THEN Open(calls, i + 1, open)
  ELSE IF calls[i].op = "start"
    THEN (IF calls[i].index \in open THEN OutOfOrder
          ELSE Open(calls, i + 1, open \cup {calls[i].index}))
  ELSE IF calls[i].index \notin open THEN OutOfOrder
  ELSE IF calls[i].op = "get_result"
    THEN Open(calls, i + 1, open \ {calls[i].index})
  ELSE Open(calls, i + 1, open)

CallsOf(op, index) ==
  {p \in 1..Len(ref.calls) : ref.calls[p].op = op /\ ref.calls[p].index = index}

\* C29: within one decode() the calls on each worker index come in the
\* order start, append_row, get_result, no append_row or get_result without
\* a start before it and no start on an index whose result is not
\* collected, and every call returns: neither the assertion of
\* start_immediate nor the one of append_row_immediate fails.
C29_WorkerCallsInOrder ==
  /\ Open(ref.calls, 1, {}) # OutOfOrder
  /\ IsOk(ref.ret)

\* Two scans have each started index 0, sent it rows and collected it.
C29_IndexStartedTwice ==
  /\ \E p, q \in CallsOf("start", 0) : p < q
  /\ \E p, q \in CallsOf("get_result", 0) : p < q
  /\ CallsOf("append_row", 0) # {}

\* The end of the image has rendered an unfinished component after a scan
\* had finished the other.
C29_PlanesAfterScan ==
  /\ hist.last_marker = Some(EOI)
  /\ CallsOf("get_result", 0) # {}
  /\ CallsOf("get_result", 1) # {}
  /\ \E p \in CallsOf("get_result", 0), q \in CallsOf("start", 1) : p < q

\* A scan has ended in an error with the result of index 0 uncollected.
C29_ErrorLeavesResult ==
  /\ res.r = Format("failed to decode huffman code")
  /\ Open(ref.calls, 1, {}) = {0}


(***************************************************************************)
(* decoder.rs: the MCU loops of decode_scan.  mcu_y and mcu_x are u16, and *)
(* so are their products with 8: a product keeps its exact value beside    *)
(* the one a build without overflow checks goes on with.  The decoding of  *)
(* the blocks of an MCU is left out; loc holds mcu_y, mcu_x and the place  *)
(* in the loops, hist the largest exact value of each expression so far.   *)
(***************************************************************************)
mul_u16(a, b) == [exact |-> a * b, wrapped |-> (a * b) % (u16_MAX + 1)]

mcu_counts(frame, components) ==
  IF Len(components) > 1
    THEN Dimensions(frame.mcu_size.width, frame.mcu_size.height)
  ELSE Dimensions(components[1].block_size.width, components[1].block_size.height)

McuSof(height, width, factor, count) ==
  [n |-> 0, lf |-> 8 + 3 * count, precision |-> 8, height |-> height,
   width |-> width,
   comps |-> [i \in 1..count |->
                [id |-> i, h |-> IF i = 1 THEN factor ELSE 1,
                 v |-> IF i = 1 THEN factor ELSE 1, tq |-> 0]],
   eof |-> FALSE]

\* Frames of the largest height or width beside small ones, of one
\* component and of three, with sampling factors 1, 2 and 3.
McuFrames ==
  {McuSof(size[1], size[2], factor, count) :
     size \in {<<16, 16>>, <<65528, 8>>, <<65535, 8>>, <<8, 65535>>},
     factor \in {1, 2, 3}, count \in {1, 3}}

McuInit ==
  \E t \in McuFrames, interleaved \in BOOLEAN, finishes \in BOOLEAN,
     overflow_checks \in BOOLEAN :
    LET frame == Val(parse_sof(t))
        components == IF interleaved THEN frame.components
                      ELSE <<frame.components[1]>>
    IN /\ IsOk(parse_sof(t))
       /\ interleaved => Len(frame.components) > 1
       /\ dec = [frame |-> frame, components |-> components,
                 finished |-> IF finishes THEN DOMAIN components ELSE {},
                 max_mcu |-> mcu_counts(frame, components),
                 overflow_checks |-> overflow_checks]
       /\ loc = [pc |-> "row", mcu_y |-> 0, mcu_x |-> 0]
       /\ res = NoResult
       /\ hist = [row |-> 0, column |-> 0, next_row |-> 0]
       /\ ref = None

McuPanics(product) == product.exact > u16_MAX /\ dec.overflow_checks

McuReturn(r) ==
  /\ loc' = [loc EXCEPT !.pc = "done"]
  /\ res' = [op |-> "decode_scan", r |-> r]

Larger(a, b) == IF a > b THEN a ELSE b

\* for mcu_y in 0..max_mcu_y { if mcu_y * 8 >= frame.image_size.height { break; }
McuRow ==
  LET row == mul_u16(loc.mcu_y, 8)
  IN /\ loc.pc = "row"
     /\ IF loc.mcu_y >= dec.max_mcu.height
          THEN McuReturn(Ok(Unit)) /\ UNCHANGED hist
        ELSE /\ hist' = [hist EXCEPT !.row = Larger(@, row.exact)]
             /\ IF McuPanics(row)
                  THEN McuReturn(Panic("attempt to multiply with overflow"))
                ELSE IF row.wrapped >= dec.frame.image_size.height
                  THEN McuReturn(Ok(Unit))
                ELSE /\ loc' = [loc EXCEPT !.pc = "mcu", !.mcu_x = 0]
                     /\ UNCHANGED res
     /\ UNCHANGED <<dec, ref>>

\* for mcu_x in 0..max_mcu_x { if mcu_x * 8 >= frame.image_size.width { break; }
McuColumn ==
  LET column == mul_u16(loc.mcu_x, 8)
  IN /\ loc.pc = "mcu"
     /\ IF loc.mcu_x >= dec.max_mcu.width
          THEN /\ loc' = [loc EXCEPT !.pc = "dispatch"]
               /\ UNCHANGED <<res, hist>>
        ELSE /\ hist' = [hist EXCEPT !.column = Larger(@, column.exact)]
             /\ IF McuPanics(column)
                  THEN McuReturn(Panic("attempt to multiply with overflow"))
                ELSE IF column.wrapped >= dec.frame.image_size.width
                  THEN /\ loc' = [loc EXCEPT !.pc = "dispatch"]
                       /\ UNCHANGED res
                ELSE /\ loc' = [loc EXCEPT !.mcu_x = @ + 1]
                     /\ UNCHANGED res
     /\ UNCHANGED <<dec, ref>>

\* The rows sent to the worker after an MCU row: (mcu_y + 1) * 8 is
\* evaluated for a finished component of a scan that is not interleaved.
McuDispatch ==
  LET next_row == mul_u16(loc.mcu_y + 1, 8)
      evaluated == dec.finished # {} /\ Len(dec.components) = 1
  IN /\ loc.pc = "dispatch"
     /\ hist' = IF evaluated THEN [hist EXCEPT !.next_row = Larger(@, next_row.exact)]
                ELSE hist
     /\ IF evaluated /\ McuPanics(next_row)
          THEN McuReturn(Panic("attempt to multiply with overflow"))
        ELSE /\ loc' = [loc EXCEPT !.pc = "row", !.mcu_y = @ + 1]
             /\ UNCHANGED res
     /\ UNCHANGED <<dec, ref>>

McuNext == McuRow \/ McuColumn \/ McuDispatch

SpecMcu == McuInit /\ [][McuNext]_vars

\* C30: in decode_scan the u16 expressions mcu_y * 8, mcu_x * 8 and
\* (mcu_y + 1) * 8 never exceed 65535, for every frame the parser accepts
\* and every scan of it, interleaved or not.
C30_McuProductsFitU16 ==
  /\ hist.row <= u16_MAX
  /\ hist.column <= u16_MAX
  /\ hist.next_row <= u16_MAX

\* What does hold: the products fit in every interleaved scan, and in a
\* scan of one component when the frame is at most 65528 high and wide.
C30_FitsInterleavedOrSmaller ==
  (\/ Len(dec.components) > 1
   \/ /\ dec.frame.image_size.height <= u16_MAX - 7
      /\ dec.frame.image_size.width <= u16_MAX - 7)
    => C30_McuProductsFitU16

\* (mcu_y + 1) * 8 is 65536 in the last row of a frame of height 65535
\* with one block row per MCU row, and a build with overflow checks panics.
C30_NextRowOverflows ==
  /\ hist.next_row = u16_MAX + 1
  /\ dec.overflow_checks
  /\ res.r = Panic("attempt to multiply with overflow")

\* Without overflow checks mcu_y * 8 wraps to 0 at mcu_y = 8192 and the
\* loop goes on to decode a row below the image.
C30_RowWrapsAndGoesOn ==
  /\ hist.row = u16_MAX + 1
  /\ ~dec.overflow_checks
  /\ loc.pc = "mcu"

\* mcu_x * 8 is 65536 in a scan of one component with three blocks per MCU.
C30_ColumnOverflows ==
  /\ hist.column = u16_MAX + 1
  /\ loc.pc = "done"

\* The interleaved scan of the highest frame has ended with its products
\* in range.
C30_InterleavedScanEnds ==
  /\ Len(dec.components) > 1
  /\ dec.frame.image_size.height = u16_MAX
  /\ loc.pc = "done"
  /\ IsOk(res.r)
  /\ hist.row = u16_MAX - 7

====
